---- MODULE Spec2Model ----
(***************************************************************************)
(* Reachability collector of the Kani compiler                             *)
(* (kani-compiler/src/codegen_cprover_gotoc/reachability.rs).              *)
(*                                                                         *)
(* The collector is a worklist traversal over mono items.  The compiler    *)
(* context (tcx) is the input: a small crate whose bodies, statics and     *)
(* allocations are the tables below, plus the call edges of two functions  *)
(* which are chosen freely in the initial state (mir_calls).               *)
(***************************************************************************)
EXTENDS Integers, Sequences, FiniteSets, Bags, TLC

(***************************************************************************)
(* Bounds of the model.                                                    *)
(***************************************************************************)
MaxRoots == 2
NumHashSeeds == 2

(***************************************************************************)
(* Generic helpers on sequences and sets.                                  *)
(***************************************************************************)
Range(s) == {s[i] : i \in 1..Len(s)}

Reverse(s) == [i \in 1..Len(s) |-> s[Len(s) + 1 - i]]

SeqsUpTo(S, n) == UNION {[1..k -> S] : k \in 0..n}

(***************************************************************************)
(* MonoItem: Fn(instance) | Static(def_id) | GlobalAsm(item_id).           *)
(* An instance is its InstanceDef kind (def) and the definition or type it *)
(* is instantiated for (of); substitutions are ground, so an instance is   *)
(* identified by this pair.                                                *)
(***************************************************************************)
Instance(def, of) == [def |-> def, of |-> of]

MonoFn(inst) == [kind |-> "Fn", def |-> inst.def, of |-> inst.of]

MonoStatic(def_id) == [kind |-> "Static", def |-> "-", of |-> def_id]

MonoGlobalAsm(id) == [kind |-> "GlobalAsm", def |-> "-", of |-> id]

InstanceOf(item) == Instance(item.def, item.of)

(***************************************************************************)
(* The crate given to the collector.  Functions: H, F, G (which calls the  *)
(* trait method Animal::speak on a trait object and the intrinsic          *)
(* transmute), f, g, init_fn, tracked_fn and the closure in it, ext_fn,    *)
(* ext_addr_fn and ext_tracked_fn (foreign), no_mir_fn (no MIR),           *)
(* Cat::speak, Cat::feed, Dog::speak, Dog::feed (no MIR).  Trait Animal:   *)
(* Speaker + Tagged, with speak inherited from Speaker, no method in       *)
(* Tagged, and its own methods feed and sized_only (which requires         *)
(* Self: Sized), implemented for Cat and Dog.                              *)
(* Statics: S1, S2, TLS (thread local), ext_static (foreign), ext_tls (a   *)
(* foreign thread local), S_err (its initializer does not evaluate), S3    *)
(* (its initializer refers to S3 itself and to S4) and S4 (its initializer *)
(* refers to S3).                                                          *)
(* Global assembly: asm0.                                                  *)
(***************************************************************************)
\* tcx.is_foreign_item
is_foreign_item(def_id) ==
    def_id \in {"ext_fn", "ext_addr_fn", "ext_tracked_fn", "ext_static", "ext_tls"}

\* tcx.is_mir_available
is_mir_available(def_id) ==
    def_id \notin {"ext_fn", "ext_addr_fn", "ext_tracked_fn", "ext_static",
                   "ext_tls", "no_mir_fn", "Dog::feed"}

\* tcx.is_thread_local_static
is_thread_local_static(def_id) == def_id \in {"TLS", "ext_tls"}

\* The functions whose bodies are chosen in the initial state, and what the
\* chosen part of a body may hold: calls of f and g and, in g, at most one
\* of the constructs that break a precondition of the collector: a call of
\* "ambiguous", a callee that Instance::resolve cannot resolve to a
\* candidate; a call of "resolve_err", for which Instance::resolve returns
\* an error; a constant that is still generic; a Yield, GeneratorDrop,
\* FalseEdge or FalseUnwind terminator; a constant pointer to the thread
\* local TLS; a constant pointer to S_err; a cast of the intrinsic transmute
\* to a function pointer; a call whose callee operand is neither a function
\* definition nor a function pointer.
\* Only f refers to g: when f does not call g the body of g is never read,
\* and its chosen part is then left empty.
VarFns == {"f", "g"}

FaultCallees ==
    {"ambiguous", "resolve_err", "too_generic", "yield", "generator_drop",
     "false_edge", "false_unwind", "tls_ptr", "bad_static", "reify_intrinsic",
     "bad_callee"}

VarCallees(fn) == IF fn = "f" THEN {"f", "g"} ELSE {"f"} \cup FaultCallees

\* What the chosen part of the body of a function may be.
CalleeSets(fn) ==
    {callees \in SUBSET VarCallees(fn) : \A a, b \in callees \cap FaultCallees : a = b}

CallGraphs ==
    {cg \in {[fn \in VarFns |-> IF fn = "f" THEN of_f ELSE of_g] :
                of_f \in CalleeSets("f"), of_g \in CalleeSets("g")} :
        "g" \notin cg["f"] => cg["g"] = {}}

(***************************************************************************)
(* Types.  Only what the collector inspects is kept: the kind, the name,   *)
(* the fields of a struct and the field its CoerceUnsized impl designates  *)
(* (coerce = 0: no such impl).                                             *)
(***************************************************************************)
TyNamed(n) == [k |-> "Named", n |-> n]

TyDyn(principal) == [k |-> "Dynamic", n |-> principal]

TyRef(t) == [k |-> "Ref", t |-> t]

TyRawPtr(t) == [k |-> "RawPtr", t |-> t]

TyBox(t) == [k |-> "Box", t |-> t]

TySlice(t) == [k |-> "Slice", t |-> t]

TyArray(t) == [k |-> "Array", t |-> t]

TyStruct(n, fields, coerce) ==
    [k |-> "Struct", n |-> n, fields |-> fields, coerce |-> coerce]

\* A trait object without principal trait (auto traits only) has n = "".
NoPrincipal == ""

\* Ty::is_trait
is_trait(ty) == ty.k = "Dynamic"

RECURSIVE TypeName(_)
TypeName(ty) ==
    CASE ty.k \in {"Named", "Struct"} -> ty.n
      [] ty.k = "Dynamic" -> "dyn " \o ty.n
      [] ty.k = "Ref" -> "&" \o TypeName(ty.t)
      [] ty.k = "RawPtr" -> "*" \o TypeName(ty.t)
      [] ty.k = "Box" -> "Box " \o TypeName(ty.t)
      [] OTHER -> "[" \o TypeName(ty.t) \o "]"

\* Ty::is_sized
RECURSIVE is_sized(_)
is_sized(ty) ==
    CASE ty.k \in {"Dynamic", "Slice"} -> FALSE
      [] ty.k = "Struct" ->
            IF ty.fields = <<>> THEN TRUE ELSE is_sized(ty.fields[Len(ty.fields)])
      [] OTHER -> TRUE

\* tcx.struct_tail_erasing_lifetimes
RECURSIVE struct_tail(_)
struct_tail(ty) ==
    IF ty.k = "Struct" /\ ty.fields # <<>>
    THEN struct_tail(ty.fields[Len(ty.fields)])
    ELSE ty

\* tcx.struct_lockstep_tails_erasing_lifetimes
RECURSIVE struct_lockstep_tails(_, _)
struct_lockstep_tails(a, b) ==
    IF /\ a.k = "Struct" /\ b.k = "Struct" /\ a.n = b.n
       /\ a.fields # <<>> /\ b.fields # <<>>
    THEN struct_lockstep_tails(a.fields[Len(a.fields)], b.fields[Len(b.fields)])
    ELSE <<a, b>>

\* The types of the crate.
Cat == TyNamed("Cat")

Dog == TyNamed("Dog")

U8 == TyNamed("u8")

Holder == TyNamed("Holder")

FnTable == TyNamed("FnTable")

Animal == TyDyn("Animal")

\* A trait object of auto traits only.
DynSend == TyDyn(NoPrincipal)

\* The type of the closure in tracked_fn.
TyClosure(def_id) == [k |-> "Closure", def_id |-> def_id]

closure0 == "tracked_fn::{closure#0}"

\* Whether the type has drop glue of its own (Ty::needs_drop); decides between
\* DropGlue(_, Some(ty)) and DropGlue(_, None) in resolve_drop_in_place.
needs_drop(ty) == TypeName(ty) \in {"Cat", "Dog", "Holder"}

\* Instance::resolve_drop_in_place
resolve_drop_in_place(ty) ==
    Instance(IF needs_drop(ty) THEN "DropGlueSome" ELSE "DropGlueNone", TypeName(ty))

\* Instance::polymorphize: the identity on instances whose substitutions are
\* all used, which is the case for every instance of the crate.
polymorphize(inst) == Instance(inst.def, inst.of)

(***************************************************************************)
(* Allocations (tcx.global_alloc) and statics of the crate.                *)
(***************************************************************************)
\* tcx.global_alloc(alloc_id).  A Memory allocation lists the allocation ids
\* of its provenance map in offset order.
GlobalAlloc(alloc_id) ==
    CASE alloc_id = "alloc_S1" -> [ga |-> "Static", def_id |-> "S1"]
      [] alloc_id = "alloc_S2" -> [ga |-> "Static", def_id |-> "S2"]
      [] alloc_id = "alloc_ext_static" -> [ga |-> "Static", def_id |-> "ext_static"]
      [] alloc_id = "alloc_S_err" -> [ga |-> "Static", def_id |-> "S_err"]
      [] alloc_id = "alloc_TLS" -> [ga |-> "Static", def_id |-> "TLS"]
      [] alloc_id = "alloc_S3" -> [ga |-> "Static", def_id |-> "S3"]
      [] alloc_id = "alloc_S4" -> [ga |-> "Static", def_id |-> "S4"]
      [] alloc_id = "alloc_init_fn" ->
            [ga |-> "Function", instance |-> Instance("Item", "init_fn")]
      [] alloc_id = "alloc_ext_fn" ->
            [ga |-> "Function", instance |-> Instance("Item", "ext_fn")]
      [] alloc_id = "alloc_table" ->
            [ga |-> "Memory", provenance |-> <<"alloc_inner", "alloc_ext_static">>]
      [] alloc_id = "alloc_inner" ->
            [ga |-> "Memory", provenance |-> <<"alloc_init_fn", "alloc_ext_fn">>]
      [] alloc_id = "alloc_dog_speak" ->
            [ga |-> "Function", instance |-> Instance("Item", "Dog::speak")]
      [] alloc_id = "alloc_dog_feed" ->
            [ga |-> "Function", instance |-> Instance("Item", "Dog::feed")]
      [] alloc_id = "alloc_dog_drop" ->
            [ga |-> "Function", instance |-> Instance("DropGlueSome", "Dog")]
      [] alloc_id = "alloc_vtable_dog" ->
            [ga |-> "VTable", ty |-> Dog, trait_ref |-> "Animal"]
      [] alloc_id = "alloc_vtable_dog_bytes" ->
            [ga |-> "Memory",
             provenance |-> <<"alloc_dog_drop", "alloc_dog_speak", "alloc_dog_feed">>]
      [] OTHER -> [ga |-> "Memory", provenance |-> <<>>]

\* tcx.vtable_allocation((ty, trait_ref))
vtable_allocation(ty, trait_ref) ==
    IF ty = Dog /\ trait_ref = "Animal"
    THEN "alloc_vtable_dog_bytes"
    ELSE "alloc_empty"

\* The declared type of a static.
StaticTy(def_id) ==
    CASE def_id = "S1" -> Holder
      [] def_id = "S2" -> FnTable
      [] OTHER -> U8

\* tcx.eval_static_initializer(def_id): Ok with the provenance of the
\* evaluated allocation, or Err.
eval_static_initializer(def_id) ==
    CASE def_id = "S1" -> [ok |-> TRUE, provenance |-> <<"alloc_S2">>]
      [] def_id = "S2" -> [ok |-> TRUE, provenance |-> <<"alloc_table">>]
      [] def_id = "TLS" -> [ok |-> TRUE, provenance |-> <<"alloc_vtable_dog">>]
      [] def_id = "S_err" -> [ok |-> FALSE, provenance |-> <<>>]
      [] def_id = "S3" -> [ok |-> TRUE, provenance |-> <<"alloc_S3", "alloc_S4">>]
      [] def_id = "S4" -> [ok |-> TRUE, provenance |-> <<"alloc_S3">>]
      [] OTHER -> [ok |-> TRUE, provenance |-> <<>>]

(***************************************************************************)
(* Eligibility filter.                                                     *)
(***************************************************************************)
\* InstanceDef::def_id_if_not_guaranteed_local_codegen: the definition whose
\* body must be available, or none for instances synthesized on demand.
def_id_if_not_guaranteed_local_codegen(inst) ==
    CASE inst.def = "Item" -> {inst.of}
      [] inst.def = "DropGlueSome" -> {"core::ptr::drop_in_place"}
      [] OTHER -> {}

\* Variant: the origin of the instance is tested whatever its kind.
should_codegen_locally_by_origin(inst) ==
    IF is_foreign_item(inst.of) THEN FALSE ELSE is_mir_available(inst.of)

should_codegen_locally(inst) ==
    \A def_id \in def_id_if_not_guaranteed_local_codegen(inst) :
        IF is_foreign_item(def_id) THEN FALSE ELSE is_mir_available(def_id)

\* Instance::mono
InstanceMono(def_id) == Instance("Item", def_id)

(***************************************************************************)
(* Allocation walker.  The result is the vector of items and whether an    *)
(* assertion failed on the way (fatal).                                    *)
(***************************************************************************)
RECURSIVE collect_alloc_items(_)
RECURSIVE WalkProvenance(_)

\* Variant: nested allocation bytes are not walked.
collect_alloc_items_flat(alloc_id) ==
    LET ga == GlobalAlloc(alloc_id) IN
    CASE ga.ga = "Static" ->
            IF is_thread_local_static(ga.def_id)
            THEN [items |-> <<>>, fatal |-> TRUE]
            ELSE [items |-> IF should_codegen_locally(InstanceMono(ga.def_id))
                            THEN <<MonoStatic(ga.def_id)>>
                            ELSE <<>>,
                  fatal |-> FALSE]
      [] ga.ga = "Function" ->
            [items |-> IF should_codegen_locally(ga.instance)
                       THEN <<MonoFn(polymorphize(ga.instance))>>
                       ELSE <<>>,
             fatal |-> FALSE]
      [] ga.ga = "Memory" -> [items |-> <<>>, fatal |-> FALSE]
      [] ga.ga = "VTable" ->
            collect_alloc_items(vtable_allocation(ga.ty, ga.trait_ref))

\* Variant: an implementation table is not materialized.
collect_alloc_items_no_vtable(alloc_id) ==
    LET ga == GlobalAlloc(alloc_id) IN
    CASE ga.ga = "Static" ->
            IF is_thread_local_static(ga.def_id)
            THEN [items |-> <<>>, fatal |-> TRUE]
            ELSE [items |-> IF should_codegen_locally(InstanceMono(ga.def_id))
                            THEN <<MonoStatic(ga.def_id)>>
                            ELSE <<>>,
                  fatal |-> FALSE]
      [] ga.ga = "Function" ->
            [items |-> IF should_codegen_locally(ga.instance)
                       THEN <<MonoFn(polymorphize(ga.instance))>>
                       ELSE <<>>,
             fatal |-> FALSE]
      [] ga.ga = "Memory" -> WalkProvenance(ga.provenance)
      [] ga.ga = "VTable" -> [items |-> <<>>, fatal |-> FALSE]

\* Variant: a thread local is emitted like any other static.
collect_alloc_items_tls_allowed(alloc_id) ==
    LET ga == GlobalAlloc(alloc_id) IN
    CASE ga.ga = "Static" ->
            [items |-> IF should_codegen_locally(InstanceMono(ga.def_id))
                       THEN <<MonoStatic(ga.def_id)>>
                       ELSE <<>>,
             fatal |-> FALSE]
      [] ga.ga = "Function" ->
            [items |-> IF should_codegen_locally(ga.instance)
                       THEN <<MonoFn(polymorphize(ga.instance))>>
                       ELSE <<>>,
             fatal |-> FALSE]
      [] ga.ga = "Memory" -> WalkProvenance(ga.provenance)
      [] ga.ga = "VTable" ->
            collect_alloc_items(vtable_allocation(ga.ty, ga.trait_ref))

\* Variant: the walk of a static goes on into the statics of its initializer.
collect_alloc_items_with_initializer(alloc_id) ==
    LET ga == GlobalAlloc(alloc_id) IN
    CASE ga.ga = "Static" ->
            IF is_thread_local_static(ga.def_id)
            THEN [items |-> <<>>, fatal |-> TRUE]
            ELSE LET init == eval_static_initializer(ga.def_id).provenance
                     statics == SelectSeq(init, LAMBDA id : GlobalAlloc(id).ga = "Static")
                 IN  [items |-> IF should_codegen_locally(InstanceMono(ga.def_id))
                                THEN <<MonoStatic(ga.def_id)>>
                                        \o [i \in 1..Len(statics) |->
                                                MonoStatic(GlobalAlloc(statics[i]).def_id)]
                                ELSE <<>>,
                      fatal |-> FALSE]
      [] ga.ga = "Function" ->
            [items |-> IF should_codegen_locally(ga.instance)
                       THEN <<MonoFn(polymorphize(ga.instance))>>
                       ELSE <<>>,
             fatal |-> FALSE]
      [] ga.ga = "Memory" -> WalkProvenance(ga.provenance)
      [] ga.ga = "VTable" ->
            collect_alloc_items(vtable_allocation(ga.ty, ga.trait_ref))

\* Variant: the walk gives every static and function it meets.
collect_alloc_items_unfiltered(alloc_id) ==
    LET ga == GlobalAlloc(alloc_id) IN
    CASE ga.ga = "Static" ->
            IF is_thread_local_static(ga.def_id)
            THEN [items |-> <<>>, fatal |-> TRUE]
            ELSE [items |-> <<MonoStatic(ga.def_id)>>, fatal |-> FALSE]
      [] ga.ga = "Function" ->
            [items |-> <<MonoFn(polymorphize(ga.instance))>>, fatal |-> FALSE]
      [] ga.ga = "Memory" -> WalkProvenance(ga.provenance)
      [] ga.ga = "VTable" ->
            collect_alloc_items(vtable_allocation(ga.ty, ga.trait_ref))

collect_alloc_items(alloc_id) ==
    LET ga == GlobalAlloc(alloc_id) IN
    CASE ga.ga = "Static" ->
            IF is_thread_local_static(ga.def_id)
            THEN [items |-> <<>>, fatal |-> TRUE]
            ELSE [items |-> IF should_codegen_locally(InstanceMono(ga.def_id))
                            THEN <<MonoStatic(ga.def_id)>>
                            ELSE <<>>,
                  fatal |-> FALSE]
      [] ga.ga = "Function" ->
            [items |-> IF should_codegen_locally(ga.instance)
                       THEN <<MonoFn(polymorphize(ga.instance))>>
                       ELSE <<>>,
             fatal |-> FALSE]
      [] ga.ga = "Memory" -> WalkProvenance(ga.provenance)
      [] ga.ga = "VTable" ->
            collect_alloc_items(vtable_allocation(ga.ty, ga.trait_ref))

\* The loop `for &id in alloc.inner().provenance().values()` with
\* collect_alloc_items on each id, results concatenated.
WalkProvenance(ids) ==
    IF ids = <<>>
    THEN [items |-> <<>>, fatal |-> FALSE]
    ELSE CHOOSE walk \in
            {[items |-> h.items \o r.items, fatal |-> h.fatal \/ r.fatal] :
             h \in {collect_alloc_items(Head(ids))},
             r \in {WalkProvenance(Tail(ids))}} : TRUE

(***************************************************************************)
(* Instruction scanner (MonoItemsFnCollector).  Every visit returns the    *)
(* items it adds to the collector's set and whether it panicked (fatal).   *)
(***************************************************************************)
NoEdge == [items |-> {}, fatal |-> FALSE]

\* Variant: the panic is swallowed and the scan goes on.
FatalIgnored == [items |-> {}, fatal |-> FALSE]

Fatal == [items |-> {}, fatal |-> TRUE]

Join(a, b) == [items |-> a.items \cup b.items, fatal |-> a.fatal \/ b.fatal]

\* Variant: the instance is collected without asking should_codegen_locally.
collect_instance_unfiltered(instance, is_direct_call) ==
    LET no_body == instance.def \in {"Virtual", "Intrinsic"}
        should_collect ==
            CASE no_body -> FALSE
              [] instance.def = "DropGlueNone" -> ~is_direct_call
              [] OTHER -> TRUE
    IN  IF no_body /\ ~is_direct_call
        THEN Fatal
        ELSE [items |-> IF should_collect
                        THEN {MonoFn(polymorphize(instance))}
                        ELSE {},
              fatal |-> FALSE]

\* Variant: an instance that cannot be translated locally is an error.
collect_instance_strict(instance, is_direct_call) ==
    LET no_body == instance.def \in {"Virtual", "Intrinsic"}
        should_collect ==
            CASE no_body -> FALSE
              [] instance.def = "DropGlueNone" -> ~is_direct_call
              [] OTHER -> TRUE
    IN  IF (no_body /\ ~is_direct_call) \/ ~should_codegen_locally(instance)
        THEN Fatal
        ELSE [items |-> IF should_collect
                        THEN {MonoFn(polymorphize(instance))}
                        ELSE {},
              fatal |-> FALSE]

\* Variant: every drop glue is collected only when it is not called directly.
collect_instance_glue_by_address(instance, is_direct_call) ==
    LET no_body == instance.def \in {"Virtual", "Intrinsic"}
        should_collect ==
            CASE no_body -> FALSE
              [] instance.def \in {"DropGlueNone", "DropGlueSome"} -> ~is_direct_call
              [] OTHER -> TRUE
    IN  IF no_body /\ ~is_direct_call
        THEN Fatal
        ELSE [items |-> IF should_collect /\ should_codegen_locally(instance)
                        THEN {MonoFn(polymorphize(instance))}
                        ELSE {},
              fatal |-> FALSE]

\* Variant: an instance without body is skipped however it is used.
collect_instance_no_body_skipped(instance, is_direct_call) ==
    LET no_body == instance.def \in {"Virtual", "Intrinsic"}
        should_collect ==
            CASE no_body -> FALSE
              [] instance.def = "DropGlueNone" -> ~is_direct_call
              [] OTHER -> TRUE
    IN  [items |-> IF should_collect /\ should_codegen_locally(instance)
                   THEN {MonoFn(polymorphize(instance))}
                   ELSE {},
         fatal |-> FALSE]

collect_instance(instance, is_direct_call) ==
    LET no_body == instance.def \in {"Virtual", "Intrinsic"}
        should_collect ==
            CASE no_body -> FALSE
              [] instance.def = "DropGlueNone" -> ~is_direct_call
              [] OTHER -> TRUE
    IN  IF no_body /\ ~is_direct_call
        THEN Fatal
        ELSE [items |-> IF should_collect /\ should_codegen_locally(instance)
                        THEN {MonoFn(polymorphize(instance))}
                        ELSE {},
              fatal |-> FALSE]

\* tcx.vtable_entries for the impl of the principal trait for a concrete type.
vtable_entries(concrete_ty, principal) ==
    LET metadata == <<[e |-> "MetadataDropInPlace"], [e |-> "MetadataSize"],
                      [e |-> "MetadataAlign"]>>
        n == TypeName(concrete_ty)
    IN  IF principal = "Animal" /\ n \in {"Cat", "Dog"}
        THEN metadata \o <<[e |-> "Method", instance |-> Instance("Item", n \o "::speak")],
                           [e |-> "TraitVPtr", trait_ref |-> "Tagged"],
                           [e |-> "Method", instance |-> Instance("Item", n \o "::feed")],
                           [e |-> "Vacant"]>>
        ELSE metadata

\* Variant: the methods of every implementor of the trait are collected.
collect_vtable_methods_all_impls(concrete_ty, trait_ty) ==
    LET entries == IF trait_ty.k = "Dynamic" /\ trait_ty.n # NoPrincipal
                   THEN vtable_entries(Cat, trait_ty.n) \o vtable_entries(Dog, trait_ty.n)
                   ELSE <<>>
        methods == {MonoFn(polymorphize(entries[i].instance)) :
                      i \in {j \in 1..Len(entries) :
                                /\ entries[j].e = "Method"
                                /\ should_codegen_locally(entries[j].instance)}}
    IN  IF is_trait(concrete_ty) \/ ~is_trait(trait_ty)
        THEN Fatal
        ELSE Join([items |-> methods, fatal |-> FALSE],
                  collect_instance(resolve_drop_in_place(concrete_ty), FALSE))

\* Variant: the destructor of the concrete type is left out.
collect_vtable_methods_no_glue(concrete_ty, trait_ty) ==
    LET entries == IF trait_ty.k = "Dynamic" /\ trait_ty.n # NoPrincipal
                   THEN vtable_entries(concrete_ty, trait_ty.n)
                   ELSE <<>>
        methods == {MonoFn(polymorphize(entries[i].instance)) :
                      i \in {j \in 1..Len(entries) :
                                /\ entries[j].e = "Method"
                                /\ should_codegen_locally(entries[j].instance)}}
    IN  IF is_trait(concrete_ty) \/ ~is_trait(trait_ty)
        THEN Fatal
        ELSE [items |-> methods, fatal |-> FALSE]

collect_vtable_methods(concrete_ty, trait_ty) ==
    LET entries == IF trait_ty.k = "Dynamic" /\ trait_ty.n # NoPrincipal
                   THEN vtable_entries(concrete_ty, trait_ty.n)
                   ELSE <<>>
        methods == {MonoFn(polymorphize(entries[i].instance)) :
                      i \in {j \in 1..Len(entries) :
                                /\ entries[j].e = "Method"
                                /\ should_codegen_locally(entries[j].instance)}}
    IN  IF is_trait(concrete_ty) \/ ~is_trait(trait_ty)
        THEN Fatal
        ELSE Join([items |-> methods, fatal |-> FALSE],
                  collect_instance(resolve_drop_in_place(concrete_ty), FALSE))

collect_const_value(value) ==
    CASE value.cv = "ScalarPtr" ->
            LET r == collect_alloc_items(value.alloc_id)
            IN  [items |-> Range(r.items), fatal |-> r.fatal]
      [] value.cv \in {"Slice", "ByRef"} ->
            LET r == WalkProvenance(value.provenance)
            IN  [items |-> Range(r.items), fatal |-> r.fatal]
      [] OTHER -> NoEdge

\* The closure `ptr_vtable` of find_vtable_types_for_unsizing.  The result is
\* the pair of inner types, or fatal for an unexpected unsized tail.
type_has_metadata(ty) ==
    IF is_sized(ty)
    THEN [meta |-> FALSE, fatal |-> FALSE]
    ELSE [meta |-> struct_tail(ty).k \in {"Slice", "Dynamic"},
          fatal |-> struct_tail(ty).k \notin {"Slice", "Dynamic", "Foreign"}]

\* Variant: the pointees are returned as they are, without descending to
\* their tails.
ptr_vtable_no_tails(inner_source, inner_target) ==
    LET m == type_has_metadata(inner_source) IN
    [pair |-> <<inner_source, inner_target>>, fatal |-> m.fatal]

ptr_vtable(inner_source, inner_target) ==
    LET m == type_has_metadata(inner_source) IN
    IF m.fatal
    THEN [pair |-> <<inner_source, inner_target>>, fatal |-> TRUE]
    ELSE [pair |-> IF m.meta
                   THEN <<inner_source, inner_target>>
                   ELSE struct_lockstep_tails(inner_source, inner_target),
          fatal |-> FALSE]

RECURSIVE find_vtable_types_for_unsizing(_, _)
find_vtable_types_for_unsizing(source_ty, target_ty) ==
    CASE \/ source_ty.k = "Ref" /\ target_ty.k \in {"Ref", "RawPtr"}
         \/ source_ty.k = "RawPtr" /\ target_ty.k = "RawPtr" ->
            ptr_vtable(source_ty.t, target_ty.t)
      [] source_ty.k = "Box" /\ target_ty.k = "Box" ->
            ptr_vtable(source_ty.t, target_ty.t)
      [] source_ty.k = "Struct" /\ target_ty.k = "Struct" ->
            IF \/ source_ty.n # target_ty.n
               \/ source_ty.coerce = 0
               \/ source_ty.coerce > Len(source_ty.fields)
               \/ Len(source_ty.fields) # Len(target_ty.fields)
            THEN [pair |-> <<source_ty, target_ty>>, fatal |-> TRUE]
            ELSE find_vtable_types_for_unsizing(source_ty.fields[source_ty.coerce],
                                                target_ty.fields[source_ty.coerce])
      [] OTHER -> [pair |-> <<source_ty, target_ty>>, fatal |-> TRUE]

extract_trait_casting(src_ty, dst_ty) == find_vtable_types_for_unsizing(src_ty, dst_ty)

\* Instance::resolve(def_id, substs): Ok(Some(instance)), Ok(None) or Err.
InstanceResolve(def_id) ==
    CASE def_id = "ambiguous" -> [res |-> "None"]
      [] def_id = "resolve_err" -> [res |-> "Err"]
      [] def_id = "Animal::speak" ->
            [res |-> "Ok", instance |-> Instance("Virtual", def_id)]
      [] def_id = "transmute" ->
            [res |-> "Ok", instance |-> Instance("Intrinsic", def_id)]
      [] OTHER -> [res |-> "Ok", instance |-> Instance("Item", def_id)]

\* InstanceDef::requires_caller_location (#[track_caller] functions).
requires_caller_location(def_id) == def_id \in {"tracked_fn", "ext_tracked_fn"}

\* Instance::resolve_for_fn_ptr: as Instance::resolve, with a ReifyShim put in
\* place of a #[track_caller] item or a virtual method; the empty set is None.
\* Variant: every function item whose address is taken gets a ReifyShim.
resolve_for_fn_ptr_always_shim(def_id) ==
    LET r == InstanceResolve(def_id) IN
    IF r.res # "Ok"
    THEN {}
    ELSE IF r.instance.def \in {"Item", "Virtual"}
         THEN {Instance("ReifyShim", def_id)}
         ELSE {r.instance}

resolve_for_fn_ptr(def_id) ==
    LET r == InstanceResolve(def_id) IN
    IF r.res # "Ok"
    THEN {}
    ELSE IF \/ r.instance.def = "Item" /\ requires_caller_location(def_id)
            \/ r.instance.def = "Virtual"
         THEN {Instance("ReifyShim", def_id)}
         ELSE {r.instance}

\* Instance::resolve_closure(def_id, substs, ClosureKind::FnOnce)
resolve_closure(def_id) == Instance("ClosureOnceShim", def_id)

\* Variant: taking the address of a function or of a closure adds no edge.
visit_rvalue_fn_pointers_ignored(rvalue) ==
    CASE rvalue.op = "Cast" /\ rvalue.cast = "Unsize" ->
            LET x == extract_trait_casting(rvalue.src, rvalue.dst) IN
            IF x.fatal
            THEN Fatal
            ELSE IF ~is_trait(x.pair[1]) /\ is_trait(x.pair[2])
                 THEN collect_vtable_methods(x.pair[1], x.pair[2])
                 ELSE NoEdge
      [] rvalue.op = "Cast" /\ rvalue.cast = "ReifyFnPointer" ->
            IF rvalue.fn_ty.k = "FnDef" /\ resolve_for_fn_ptr(rvalue.fn_ty.def_id) # {}
            THEN NoEdge
            ELSE Fatal
      [] rvalue.op = "Cast" /\ rvalue.cast = "ClosureFnPointer" ->
            IF rvalue.src.k = "Closure"
            THEN NoEdge
            ELSE Fatal
      [] rvalue.op = "ThreadLocalRef" ->
            IF ~is_thread_local_static(rvalue.def_id)
            THEN Fatal
            ELSE [items |-> IF should_codegen_locally(InstanceMono(rvalue.def_id))
                            THEN {MonoStatic(rvalue.def_id)}
                            ELSE {},
                  fatal |-> FALSE]
      [] OTHER -> NoEdge

\* Variant: every unsizing cast goes to collect_vtable_methods.
visit_rvalue_unsize_all_resolved(rvalue) ==
    CASE rvalue.op = "Cast" /\ rvalue.cast = "Unsize" ->
            LET x == extract_trait_casting(rvalue.src, rvalue.dst) IN
            IF x.fatal
            THEN Fatal
            ELSE collect_vtable_methods(x.pair[1], x.pair[2])
      [] rvalue.op = "Cast" /\ rvalue.cast = "ReifyFnPointer" ->
            IF rvalue.fn_ty.k = "FnDef" /\ resolve_for_fn_ptr(rvalue.fn_ty.def_id) # {}
            THEN collect_instance(CHOOSE i \in resolve_for_fn_ptr(rvalue.fn_ty.def_id) : TRUE,
                                  FALSE)
            ELSE Fatal
      [] rvalue.op = "Cast" /\ rvalue.cast = "ClosureFnPointer" ->
            IF rvalue.src.k = "Closure"
            THEN collect_instance(resolve_closure(rvalue.src.def_id), FALSE)
            ELSE Fatal
      [] rvalue.op = "ThreadLocalRef" ->
            IF ~is_thread_local_static(rvalue.def_id)
            THEN Fatal
            ELSE [items |-> IF should_codegen_locally(InstanceMono(rvalue.def_id))
                            THEN {MonoStatic(rvalue.def_id)}
                            ELSE {},
                  fatal |-> FALSE]
      [] OTHER -> NoEdge

\* Variant: a thread local is collected whether or not it can be translated
\* locally.
visit_rvalue_tls_unfiltered(rvalue) ==
    CASE rvalue.op = "Cast" /\ rvalue.cast = "Unsize" ->
            LET x == extract_trait_casting(rvalue.src, rvalue.dst) IN
            IF x.fatal
            THEN Fatal
            ELSE IF ~is_trait(x.pair[1]) /\ is_trait(x.pair[2])
                 THEN collect_vtable_methods(x.pair[1], x.pair[2])
                 ELSE NoEdge
      [] rvalue.op = "Cast" /\ rvalue.cast = "ReifyFnPointer" ->
            IF rvalue.fn_ty.k = "FnDef" /\ resolve_for_fn_ptr(rvalue.fn_ty.def_id) # {}
            THEN collect_instance(CHOOSE i \in resolve_for_fn_ptr(rvalue.fn_ty.def_id) : TRUE,
                                  FALSE)
            ELSE Fatal
      [] rvalue.op = "Cast" /\ rvalue.cast = "ClosureFnPointer" ->
            IF rvalue.src.k = "Closure"
            THEN collect_instance(resolve_closure(rvalue.src.def_id), FALSE)
            ELSE Fatal
      [] rvalue.op = "ThreadLocalRef" ->
            IF ~is_thread_local_static(rvalue.def_id)
            THEN Fatal
            ELSE [items |-> {MonoStatic(rvalue.def_id)}, fatal |-> FALSE]
      [] OTHER -> NoEdge

visit_rvalue(rvalue) ==
    CASE rvalue.op = "Cast" /\ rvalue.cast = "Unsize" ->
            LET x == extract_trait_casting(rvalue.src, rvalue.dst) IN
            IF x.fatal
            THEN Fatal
            ELSE IF ~is_trait(x.pair[1]) /\ is_trait(x.pair[2])
                 THEN collect_vtable_methods(x.pair[1], x.pair[2])
                 ELSE NoEdge
      [] rvalue.op = "Cast" /\ rvalue.cast = "ReifyFnPointer" ->
            IF rvalue.fn_ty.k = "FnDef" /\ resolve_for_fn_ptr(rvalue.fn_ty.def_id) # {}
            THEN collect_instance(CHOOSE i \in resolve_for_fn_ptr(rvalue.fn_ty.def_id) : TRUE,
                                  FALSE)
            ELSE Fatal
      [] rvalue.op = "Cast" /\ rvalue.cast = "ClosureFnPointer" ->
            IF rvalue.src.k = "Closure"
            THEN collect_instance(resolve_closure(rvalue.src.def_id), FALSE)
            ELSE Fatal
      [] rvalue.op = "ThreadLocalRef" ->
            IF ~is_thread_local_static(rvalue.def_id)
            THEN Fatal
            ELSE [items |-> IF should_codegen_locally(InstanceMono(rvalue.def_id))
                            THEN {MonoStatic(rvalue.def_id)}
                            ELSE {},
                  fatal |-> FALSE]
      [] OTHER -> NoEdge

\* Variant: a constant that is still generic is skipped.
visit_constant_generic_skipped(constant) ==
    LET literal == constant.literal IN
    CASE literal.ck = "Val" -> collect_const_value(literal.val)
      [] literal.ck = "TyValue" -> collect_const_value(literal.val)
      [] literal.ck = "TyUnevaluated" ->
            CASE literal.eval = "Ok" -> collect_const_value(literal.val)
              [] literal.eval = "TooGeneric" -> NoEdge
              [] OTHER -> NoEdge
      [] literal.ck \in {"TyParam", "TyInfer", "TyError"} -> NoEdge
      [] OTHER -> Fatal

\* Variant: a constant whose evaluation failed is an error of the scan.
visit_constant_error_fatal(constant) ==
    LET literal == constant.literal IN
    CASE literal.ck = "Val" -> collect_const_value(literal.val)
      [] literal.ck = "TyValue" -> collect_const_value(literal.val)
      [] literal.ck = "TyUnevaluated" ->
            CASE literal.eval = "Ok" -> collect_const_value(literal.val)
              [] literal.eval = "TooGeneric" -> Fatal
              [] OTHER -> Fatal
      [] literal.ck \in {"TyParam", "TyInfer", "TyError"} -> NoEdge
      [] OTHER -> Fatal

visit_constant(constant) ==
    LET literal == constant.literal IN
    CASE literal.ck = "Val" -> collect_const_value(literal.val)
      [] literal.ck = "TyValue" -> collect_const_value(literal.val)
      [] literal.ck = "TyUnevaluated" ->
            CASE literal.eval = "Ok" -> collect_const_value(literal.val)
              [] literal.eval = "TooGeneric" -> Fatal
              [] OTHER -> NoEdge
      [] literal.ck \in {"TyParam", "TyInfer", "TyError"} -> NoEdge
      [] OTHER -> Fatal

\* Variant: a direct call that does not resolve is skipped.
visit_terminator_unresolved_skipped(terminator) ==
    CASE terminator.op = "Call" ->
            IF terminator.fn_ty.k = "FnDef"
            THEN LET r == InstanceResolve(terminator.fn_ty.def_id) IN
                 IF r.res = "Ok" THEN collect_instance(r.instance, TRUE) ELSE NoEdge
            ELSE IF terminator.fn_ty.k = "FnPtr" THEN NoEdge ELSE Fatal
      [] terminator.op \in {"Drop", "DropAndReplace"} ->
            collect_instance(resolve_drop_in_place(terminator.place_ty), TRUE)
      [] terminator.op \in {"InlineAsm", "Abort", "Assert", "Goto", "SwitchInt",
                            "Resume", "Return", "Unreachable"} -> NoEdge
      [] terminator.op \in {"GeneratorDrop", "Yield", "FalseEdge", "FalseUnwind"} ->
            Fatal

\* Variant: the terminators that must not exist at this level add no edge.
visit_terminator_unexpected_ignored(terminator) ==
    CASE terminator.op = "Call" ->
            IF terminator.fn_ty.k = "FnDef"
            THEN LET r == InstanceResolve(terminator.fn_ty.def_id) IN
                 IF r.res = "Ok" THEN collect_instance(r.instance, TRUE) ELSE Fatal
            ELSE IF terminator.fn_ty.k = "FnPtr" THEN NoEdge ELSE Fatal
      [] terminator.op \in {"Drop", "DropAndReplace"} ->
            collect_instance(resolve_drop_in_place(terminator.place_ty), TRUE)
      [] terminator.op \in {"InlineAsm", "Abort", "Assert", "Goto", "SwitchInt",
                            "Resume", "Return", "Unreachable"} -> NoEdge
      [] terminator.op \in {"GeneratorDrop", "Yield", "FalseEdge", "FalseUnwind"} ->
            NoEdge

\* Variant: inline assembly is rejected by the scanner.
visit_terminator_asm_rejected(terminator) ==
    CASE terminator.op = "Call" ->
            IF terminator.fn_ty.k = "FnDef"
            THEN LET r == InstanceResolve(terminator.fn_ty.def_id) IN
                 IF r.res = "Ok" THEN collect_instance(r.instance, TRUE) ELSE Fatal
            ELSE IF terminator.fn_ty.k = "FnPtr" THEN NoEdge ELSE Fatal
      [] terminator.op \in {"Drop", "DropAndReplace"} ->
            collect_instance(resolve_drop_in_place(terminator.place_ty), TRUE)
      [] terminator.op \in {"Abort", "Assert", "Goto", "SwitchInt",
                            "Resume", "Return", "Unreachable"} -> NoEdge
      [] terminator.op \in {"InlineAsm", "GeneratorDrop", "Yield", "FalseEdge", "FalseUnwind"} ->
            Fatal

\* Variant: a call through a function pointer is rejected.
visit_terminator_fn_ptr_rejected(terminator) ==
    CASE terminator.op = "Call" ->
            IF terminator.fn_ty.k = "FnDef"
            THEN LET r == InstanceResolve(terminator.fn_ty.def_id) IN
                 IF r.res = "Ok" THEN collect_instance(r.instance, TRUE) ELSE Fatal
            ELSE Fatal
      [] terminator.op \in {"Drop", "DropAndReplace"} ->
            collect_instance(resolve_drop_in_place(terminator.place_ty), TRUE)
      [] terminator.op \in {"InlineAsm", "Abort", "Assert", "Goto", "SwitchInt",
                            "Resume", "Return", "Unreachable"} -> NoEdge
      [] terminator.op \in {"GeneratorDrop", "Yield", "FalseEdge", "FalseUnwind"} ->
            Fatal

visit_terminator(terminator) ==
    CASE terminator.op = "Call" ->
            IF terminator.fn_ty.k = "FnDef"
            THEN LET r == InstanceResolve(terminator.fn_ty.def_id) IN
                 IF r.res = "Ok" THEN collect_instance(r.instance, TRUE) ELSE Fatal
            ELSE IF terminator.fn_ty.k = "FnPtr" THEN NoEdge ELSE Fatal
      [] terminator.op \in {"Drop", "DropAndReplace"} ->
            collect_instance(resolve_drop_in_place(terminator.place_ty), TRUE)
      [] terminator.op \in {"InlineAsm", "Abort", "Assert", "Goto", "SwitchInt",
                            "Resume", "Return", "Unreachable"} -> NoEdge
      [] terminator.op \in {"GeneratorDrop", "Yield", "FalseEdge", "FalseUnwind"} ->
            Fatal

(***************************************************************************)
(* Bodies (tcx.instance_mir).  A body is the sequence of the rvalues,      *)
(* constants and terminators the MIR visitor walks, in block order.        *)
(***************************************************************************)
Call(def_id) == [op |-> "Call", fn_ty |-> [k |-> "FnDef", def_id |-> def_id]]

CallFnPtr == [op |-> "Call", fn_ty |-> [k |-> "FnPtr"]]

\* A call whose callee operand has a type that is neither FnDef nor FnPtr.
CallOther == [op |-> "Call", fn_ty |-> [k |-> "Param"]]

Drop(ty) == [op |-> "Drop", place_ty |-> ty]

DropAndReplace(ty) == [op |-> "DropAndReplace", place_ty |-> ty]

Unsize(src, dst) == [op |-> "Cast", cast |-> "Unsize", src |-> src, dst |-> dst]

ReifyFnPointer(def_id) ==
    [op |-> "Cast", cast |-> "ReifyFnPointer", fn_ty |-> [k |-> "FnDef", def_id |-> def_id]]

ClosureFnPointer(def_id) ==
    [op |-> "Cast", cast |-> "ClosureFnPointer", src |-> TyClosure(def_id)]

ThreadLocalRef(def_id) == [op |-> "ThreadLocalRef", def_id |-> def_id]

ConstPtr(alloc_id) ==
    [op |-> "Constant",
     literal |-> [ck |-> "Val", val |-> [cv |-> "ScalarPtr", alloc_id |-> alloc_id]]]

\* A constant that const_eval_resolve finds too generic.
ConstTooGeneric ==
    [op |-> "Constant", literal |-> [ck |-> "TyUnevaluated", eval |-> "TooGeneric"]]

\* An unevaluated constant whose evaluation fails with an error that has been
\* reported (ErrorHandled::Reported).
ConstEvalError ==
    [op |-> "Constant", literal |-> [ck |-> "TyUnevaluated", eval |-> "Reported"]]

\* An unevaluated constant that evaluates to ConstValue::ByRef; provenance is
\* the provenance map of its allocation, in offset order.
ConstByRef(provenance) ==
    [op |-> "Constant",
     literal |-> [ck |-> "TyUnevaluated", eval |-> "Ok",
                  val |-> [cv |-> "ByRef", provenance |-> provenance]]]

Terminator(kind) == [op |-> kind]

Yield == Terminator("Yield")

Return == Terminator("Return")

Goto == Terminator("Goto")

\* The order in which the chosen call edges appear in a body.
CalleeOrder ==
    <<"f", "g", "ambiguous", "resolve_err", "too_generic", "tls_ptr", "bad_static",
      "yield", "generator_drop", "false_edge", "false_unwind", "reify_intrinsic",
      "bad_callee">>

\* The instruction that a chosen name stands for.
VarInstr(name) ==
    CASE name = "too_generic" -> ConstTooGeneric
      [] name = "yield" -> Yield
      [] name = "generator_drop" -> Terminator("GeneratorDrop")
      [] name = "false_edge" -> Terminator("FalseEdge")
      [] name = "false_unwind" -> Terminator("FalseUnwind")
      [] name = "tls_ptr" -> ConstPtr("alloc_TLS")
      [] name = "bad_static" -> ConstPtr("alloc_S_err")
      [] name = "reify_intrinsic" -> ReifyFnPointer("transmute")
      [] name = "bad_callee" -> CallOther
      [] OTHER -> Call(name)

CallsOf(callees) ==
    LET named == SelectSeq(CalleeOrder, LAMBDA c : c \in callees)
    IN  [i \in 1..Len(named) |-> VarInstr(named[i])]

instance_mir(inst, cg) ==
    CASE inst.def = "Item" /\ inst.of = "H" ->
            <<Call("F"), Terminator("InlineAsm"), Terminator("SwitchInt"),
              Terminator("Assert"), Goto, Terminator("Abort"), Terminator("Resume"),
              Terminator("Unreachable"), Return>>
      [] inst.def = "Item" /\ inst.of = "F" ->
            <<ReifyFnPointer("G"), Unsize(TyRef(Cat), TyRef(Animal)), Return>>
      [] inst.def = "Item" /\ inst.of = "G" ->
            <<Call("Animal::speak"), Call("transmute"), Return>>
      [] inst.def = "Item" /\ inst.of = "f" ->
            <<ConstPtr("alloc_S1")>> \o CallsOf(cg["f"])
                \o <<Drop(Cat), DropAndReplace(Cat), Return>>
      [] inst.def = "Item" /\ inst.of = "g" ->
            <<ThreadLocalRef("TLS"), ThreadLocalRef("ext_tls"), Call("ext_fn")>>
                \o CallsOf(cg["g"])
                \o <<Drop(U8), Drop(TyRef(U8)),
                     Unsize(TyRef(TyArray(U8)), TyRef(TySlice(U8))), Goto, Return>>
      [] inst.def = "Item" /\ inst.of = "init_fn" ->
            <<ConstEvalError, ConstByRef(<<"alloc_S2", "alloc_table">>),
              ReifyFnPointer("tracked_fn"), ReifyFnPointer("ext_addr_fn"),
              Call("no_mir_fn"), Return>>
      [] inst.def = "Item" /\ inst.of = "tracked_fn" ->
            <<ClosureFnPointer(closure0), Return>>
      [] inst.def = "ClosureOnceShim" -> <<Call(inst.of), Return>>
      [] inst.def = "Item" /\ inst.of = "Cat::feed" -> <<CallFnPtr, Return>>
      [] inst.def = "Item" /\ inst.of = "Dog::speak" ->
            <<Unsize(TyBox(Dog), TyBox(Animal)), ReifyFnPointer("ext_tracked_fn"), Return>>
      [] inst.def = "ReifyShim" -> <<Call(inst.of), Return>>
      [] inst.def = "DropGlueSome" /\ inst.of = "Holder" -> <<Drop(Cat), Return>>
      [] OTHER -> <<Return>>

\* MirVisitor::visit_body: every rvalue, constant and terminator of the body
\* goes to its visit method; the collector's set accumulates the items.
VisitInstr(instr) ==
    CASE instr.op \in {"Cast", "ThreadLocalRef", "Use"} -> visit_rvalue(instr)
      [] instr.op = "Constant" -> visit_constant(instr)
      [] OTHER -> visit_terminator(instr)

visit_body(body) ==
    CHOOSE scan \in
        {[items |-> UNION {r.items : r \in visits}, fatal |-> \E r \in visits : r.fatal] :
         visits \in {{VisitInstr(instr) : instr \in Range(body)}}} : TRUE

(***************************************************************************)
(* Fingerprints and hash-set iteration order.                              *)
(***************************************************************************)
\* The definitions and types of the crate, in the order of their DefPathHash.
DefPathOrder ==
    <<"g", "Cat::feed", "S2", "H", "u8", "Dog::speak", "asm0", "f", "Holder",
      "init_fn", "TLS", "Cat", "F", "ext_fn", "Dog", "S1", "Cat::speak", "G",
      "FnTable", "tracked_fn", "no_mir_fn", "Dog::feed", "ext_static",
      "S_err", "ext_tracked_fn", "ext_addr_fn", "&u8", "tracked_fn::{closure#0}",
      "ext_tls", "S3", "S4">>

DefPathHash(name) == CHOOSE i \in 1..Len(DefPathOrder) : DefPathOrder[i] = name

InstanceDefOrder ==
    <<"-", "Item", "Intrinsic", "VTableShim", "ReifyShim", "FnPtrShim", "Virtual",
      "ClosureOnceShim", "DropGlueNone", "DropGlueSome", "CloneShim">>

DefDiscriminant(def) == CHOOSE i \in 1..Len(InstanceDefOrder) : InstanceDefOrder[i] = def

KindDiscriminant(kind) ==
    CASE kind = "Fn" -> 0 [] kind = "Static" -> 1 [] OTHER -> 2

\* Variant: only the MonoItem discriminant is hashed.
KindFingerprint(item) == KindDiscriminant(item.kind)

\* to_fingerprint: the stable hash of the item's content, that is of the
\* MonoItem discriminant, the InstanceDef discriminant and the DefPathHash of
\* the definition or type.  The 128-bit hash is taken to be collision free.
to_fingerprint(item) ==
    (DefPathHash(item.of) * 16 + DefDiscriminant(item.def)) * 4
        + KindDiscriminant(item.kind)

\* The bucket an item hashes to in an FxHashSet.  FxHasher hashes interned
\* pointers, so the value differs from one compilation session to the other:
\* seed stands for the session.  Distinct items get distinct buckets (the
\* item codes are below the prime modulus).
FxBucket(item, seed) ==
    (((DefDiscriminant(item.def) * 32 + DefPathHash(item.of)) * 4
        + KindDiscriminant(item.kind)) * (37 * seed * seed + 1)) % 2003

\* FxHashSet::iter / into_iter: the elements in bucket order.  Each element
\* is hashed once; the element at position p is the one with p - 1 elements
\* in lower buckets.
HashSetIter(S, seed) ==
    CHOOSE iter \in
        {[p \in 1..Cardinality(S) |->
            (CHOOSE e \in hashed :
                Cardinality({d \in hashed : d[1] < e[1]}) = p - 1)[2]] :
         hashed \in {{<<FxBucket(x, seed), x>> : x \in S}}} : TRUE

\* The position that the stable sort gives to the element with key keys[i]:
\* behind the elements of smaller key and the elements of equal key that
\* precede it.
SortedPosition(keys, i) ==
    1 + Cardinality({j \in 1..Len(keys) :
                        \/ keys[j] < keys[i]
                        \/ keys[j] = keys[i] /\ j < i})

\* Variant: the vector is returned as the set iterates.
Unsorted(items) == items

\* slice::sort_by_cached_key(|item| to_fingerprint(tcx, item)), a stable sort:
\* the key of each element is computed once.
SortByCachedKey(items) ==
    CHOOSE sorted \in
        {[p \in 1..Len(items) |->
            items[CHOOSE i \in 1..Len(items) : SortedPosition(keys, i) = p]] :
         keys \in {[i \in 1..Len(items) |-> to_fingerprint(items[i])]}} : TRUE

(***************************************************************************)
(* The collector as a state machine.                                       *)
(***************************************************************************)
VARIABLES
    mir_calls,          \* the call edges of f and g in the crate
    harnesses,          \* the harness list of the crate
    calls,              \* the starting_points of the successive invocations
    results,            \* the vectors returned by the finished invocations
    pc,                 \* "idle", "roots", "loop", "visit" or "aborted"
    starting_points,    \* argument of the running invocation
    next_root,          \* position of the `for item in starting_points` loop
    collected,          \* MonoItemsCollector::collected
    queue,              \* MonoItemsCollector::queue
    to_visit,           \* the item popped last
    hash_seed,          \* the session's hash values (iteration order of sets)
    visit_log,          \* bag of the visit_fn / visit_static / visit_asm spans entered
    unsizing,           \* an unsizing cast given to visit_rvalue on its own
    mir_pass            \* a run of the call abstraction pass on one body

vars == <<mir_calls, harnesses, calls, results, pc, starting_points, next_root,
          collected, queue, to_visit, hash_seed, visit_log, unsizing, mir_pass>>

\* Nothing but the collector runs.
NotRunning == [pc |-> "idle"]

crate == <<mir_calls, harnesses, calls>>

RootCandidates ==
    {MonoFn(Instance("Item", "H")), MonoFn(Instance("Item", "f")),
     MonoStatic("S1"), MonoGlobalAsm("asm0")}

RootLists == SeqsUpTo(RootCandidates, MaxRoots)

\* The invocations made for a harness list: one per harness (the closure of
\* each entry point), one for the whole list and one for the list in the
\* opposite order.
Invocations(hs) == [i \in 1..Len(hs) |-> <<hs[i]>>] \o <<hs, Reverse(hs)>>

NoItem == [kind |-> "None", def |-> "-", of |-> "-"]

\* The bodies of f and g are read only when f is a starting point (nothing
\* else refers to f, and only f refers to g): for a harness list without f
\* their chosen part is left empty.
BodiesRead(hs, cg) ==
    \/ MonoFn(Instance("Item", "f")) \in Range(hs)
    \/ cg = [fn \in VarFns |-> {}]

Init ==
    /\ mir_calls \in CallGraphs
    /\ harnesses \in RootLists
    /\ BodiesRead(harnesses, mir_calls)
    /\ calls = Invocations(harnesses)
    /\ results = <<>>
    /\ pc = "idle"
    /\ starting_points = <<>>
    /\ next_root = 1
    /\ collected = {}
    /\ queue = <<>>
    /\ to_visit = NoItem
    /\ hash_seed = 1
    /\ visit_log = EmptyBag
    /\ unsizing = NotRunning
    /\ mir_pass = NotRunning

\* collect_reachable_items is entered: a new collector with an empty set and
\* an empty queue.
NewCollector ==
    /\ pc = "idle"
    /\ Len(results) < Len(calls)
    /\ starting_points' = calls[Len(results) + 1]
    /\ next_root' = 1
    /\ collected' = {}
    /\ queue' = <<>>
    /\ hash_seed' \in 1..NumHashSeeds
    /\ visit_log' = EmptyBag
    /\ pc' = "roots"
    /\ UNCHANGED <<crate, unsizing, mir_pass,
                   results, to_visit>>

\* Variant: every root starts from an empty set.
CollectFresh ==
    /\ pc = "roots"
    /\ next_root <= Len(starting_points)
    /\ queue' = Append(queue, starting_points[next_root])
    /\ next_root' = next_root + 1
    /\ collected' = {}
    /\ pc' = "loop"
    /\ UNCHANGED <<crate, unsizing, mir_pass,
                   results, starting_points, to_visit, hash_seed, visit_log>>

\* Variant: the roots that remain are pushed together.
CollectAllRoots ==
    /\ pc = "roots"
    /\ next_root <= Len(starting_points)
    /\ queue' = queue \o SubSeq(starting_points, next_root, Len(starting_points))
    /\ next_root' = Len(starting_points) + 1
    /\ pc' = "loop"
    /\ UNCHANGED <<crate, unsizing, mir_pass,
                   results, starting_points, collected, to_visit, hash_seed,
                   visit_log>>

\* collect(root): the root is pushed and reachable_items is entered.
Collect ==
    /\ pc = "roots"
    /\ next_root <= Len(starting_points)
    /\ queue' = Append(queue, starting_points[next_root])
    /\ next_root' = next_root + 1
    /\ pc' = "loop"
    /\ UNCHANGED <<crate, unsizing, mir_pass,
                   results, starting_points, collected, to_visit, hash_seed,
                   visit_log>>

\* Variant: the membership test is skipped.
NeverCollected(coll, item) == TRUE

\* `!self.collected.contains(&to_visit)`
NotCollected(coll, item) == item \notin coll

\* Variant: the item is not inserted before its visit.
InsertNothing(coll, item) == coll

\* `self.collected.insert(to_visit)`
InsertCollected(coll, item) == coll \cup {item}

\* One iteration of `while let Some(to_visit) = self.queue.pop()` up to the
\* dispatch, for the element at position k: it is taken off the queue; an item
\* not yet collected is inserted into the set and goes to its visitor.
PopAt(k) ==
    /\ to_visit' = queue[k]
    /\ queue' = SubSeq(queue, 1, k - 1) \o SubSeq(queue, k + 1, Len(queue))
    /\ IF NotCollected(collected, queue[k])
       THEN /\ collected' = InsertCollected(collected, queue[k])
            /\ pc' = "visit"
       ELSE /\ collected' = collected
            /\ pc' = "loop"
    /\ UNCHANGED <<crate, unsizing, mir_pass,
                   results, starting_points, next_root, hash_seed, visit_log>>

\* Variant: the last element is read and left on the queue.
PopPeek ==
    /\ pc = "loop"
    /\ queue # <<>>
    /\ to_visit' = queue[Len(queue)]
    /\ queue' = queue
    /\ IF NotCollected(collected, queue[Len(queue)])
       THEN /\ collected' = InsertCollected(collected, queue[Len(queue)])
            /\ pc' = "visit"
       ELSE /\ collected' = collected
            /\ pc' = "loop"
    /\ UNCHANGED <<crate, unsizing, mir_pass,
                   results, starting_points, next_root, hash_seed, visit_log>>

\* Vec::pop takes the last element.
Pop ==
    /\ pc = "loop"
    /\ queue # <<>>
    /\ PopAt(Len(queue))

\* Variant: the loop over the starting points is left after the first root.
LoopExitBreak ==
    /\ pc = "loop"
    /\ queue = <<>>
    /\ pc' = "roots"
    /\ next_root' = Len(starting_points) + 1
    /\ UNCHANGED <<crate, unsizing, mir_pass,
                   results, starting_points, collected, queue, to_visit,
                   hash_seed, visit_log>>

\* The queue is empty: reachable_items and collect return.
LoopExit ==
    /\ pc = "loop"
    /\ queue = <<>>
    /\ pc' = "roots"
    /\ UNCHANGED <<crate, unsizing, mir_pass,
                   results, starting_points, next_root, collected, queue,
                   to_visit, hash_seed, visit_log>>

\* Variant: the filter keeps the items already collected.
ExtendInverted(q, items, coll, seed) ==
    q \o HashSetIter({item \in items : item \in coll}, seed)

\* Variant: the neighbours are queued only when nothing else is pending.
ExtendWhenEmpty(q, items, coll, seed) ==
    IF q = <<>> THEN q \o HashSetIter({item \in items : item \notin coll}, seed) ELSE q

\* Variant: only the first of the neighbours is queued.
ExtendFirst(q, items, coll, seed) ==
    LET new == HashSetIter({item \in items : item \notin coll}, seed)
    IN  IF new = <<>> THEN q ELSE Append(q, new[1])

\* `self.queue.extend(collector.collected.iter().filter(|item|
\* !self.collected.contains(item)))`
ExtendFiltered(q, items, coll, seed) ==
    q \o HashSetIter({item \in items : item \notin coll}, seed)

VisitFn ==
    /\ pc = "visit"
    /\ to_visit.kind = "Fn"
    /\ \E body \in {instance_mir(InstanceOf(to_visit), mir_calls)} :
       \E scan \in {visit_body(body)} :
          IF scan.fatal
          THEN /\ pc' = "aborted"
               /\ queue' = queue
          ELSE /\ pc' = "loop"
               /\ queue' = ExtendFiltered(queue, scan.items, collected, hash_seed)
    /\ visit_log' = visit_log (+) SetToBag({to_visit})
    /\ UNCHANGED <<crate, unsizing, mir_pass,
                   results, starting_points, next_root, collected, to_visit,
                   hash_seed>>

\* The drop function pushed by visit_static.
StaticDropItem(def_id) ==
    MonoFn(polymorphize(resolve_drop_in_place(StaticTy(def_id))))

VisitStatic ==
    /\ pc = "visit"
    /\ to_visit.kind = "Static"
    /\ \E init \in {eval_static_initializer(to_visit.of)} :
       \E walk \in {WalkProvenance(init.provenance)} :
          IF ~init.ok \/ walk.fatal
          THEN /\ pc' = "aborted"
               /\ queue' = Append(queue, StaticDropItem(to_visit.of))
          ELSE /\ pc' = "loop"
               /\ queue' = Append(queue, StaticDropItem(to_visit.of)) \o walk.items
    /\ visit_log' = visit_log (+) SetToBag({to_visit})
    /\ UNCHANGED <<crate, unsizing, mir_pass,
                   results, starting_points, next_root, collected, to_visit,
                   hash_seed>>

\* Variant: the visit puts the item back on the queue.
VisitAsmRequeued ==
    /\ pc = "visit"
    /\ to_visit.kind = "GlobalAsm"
    /\ collected' = collected \cup {to_visit}
    /\ queue' = Append(queue, to_visit)
    /\ visit_log' = visit_log (+) SetToBag({to_visit})
    /\ pc' = "loop"
    /\ UNCHANGED <<crate, unsizing, mir_pass,
                   results, starting_points, next_root, to_visit, hash_seed>>

VisitAsm ==
    /\ pc = "visit"
    /\ to_visit.kind = "GlobalAsm"
    /\ collected' = collected \cup {to_visit}
    /\ visit_log' = visit_log (+) SetToBag({to_visit})
    /\ pc' = "loop"
    /\ UNCHANGED <<crate, unsizing, mir_pass,
                   results, starting_points, next_root, queue, to_visit,
                   hash_seed>>

\* Variant: the starting points are put in the vector next to the set.
FinishWithRoots ==
    /\ pc = "roots"
    /\ next_root > Len(starting_points)
    /\ \E sorted_items \in {starting_points \o HashSetIter(collected, hash_seed)} :
          results' = Append(results, SortByCachedKey(sorted_items))
    /\ pc' = "idle"
    /\ UNCHANGED <<crate, unsizing, mir_pass,
                   starting_points, next_root, collected, queue, to_visit,
                   hash_seed, visit_log>>

\* The roots are exhausted: the set is turned into a vector, the vector is
\* sorted by fingerprint and returned.  check_result only logs.
Finish ==
    /\ pc = "roots"
    /\ next_root > Len(starting_points)
    /\ \E sorted_items \in {HashSetIter(collected, hash_seed)} :
          results' = Append(results, SortByCachedKey(sorted_items))
    /\ pc' = "idle"
    /\ UNCHANGED <<crate, unsizing, mir_pass,
                   starting_points, next_root, collected, queue, to_visit,
                   hash_seed, visit_log>>

Next ==
    \/ NewCollector
    \/ Collect
    \/ Pop
    \/ LoopExit
    \/ VisitFn
    \/ VisitStatic
    \/ VisitAsm
    \/ Finish

Spec == Init /\ [][Next]_vars


\* The traversal with the pending items taken in any order instead of last
\* in, first out.
PopAny ==
    /\ pc = "loop"
    /\ queue # <<>>
    /\ \E k \in 1..Len(queue) : PopAt(k)

NextAnyOrder ==
    \/ NewCollector
    \/ Collect
    \/ PopAny
    \/ LoopExit
    \/ VisitFn
    \/ VisitStatic
    \/ VisitAsm
    \/ Finish

\* One invocation on the harness list.
InitSingle ==
    /\ mir_calls \in CallGraphs
    /\ harnesses \in RootLists
    /\ BodiesRead(harnesses, mir_calls)
    /\ calls = <<harnesses>>
    /\ results = <<>>
    /\ pc = "idle"
    /\ starting_points = <<>>
    /\ next_root = 1
    /\ collected = {}
    /\ queue = <<>>
    /\ to_visit = NoItem
    /\ hash_seed = 1
    /\ visit_log = EmptyBag
    /\ unsizing = NotRunning
    /\ mir_pass = NotRunning

\* One invocation on a crate whose bodies keep the preconditions of the
\* collector, so that the traversal runs to its end in every order.
InitWellFormed ==
    /\ InitSingle
    /\ mir_calls["g"] \cap FaultCallees = {}

SpecAnyOrder == InitWellFormed /\ [][NextAnyOrder]_vars

\* The traversal is a sequential loop: a step that can be taken is taken.
FairSpec == InitSingle /\ [][Next]_vars /\ WF_vars(Next)

(***************************************************************************)
(* The item graph: the edges generated by visiting an item, and the least  *)
(* set that contains a set of roots and is closed under the edges.         *)
(***************************************************************************)
Neighbours(item, cg) ==
    CASE item.kind = "Fn" -> visit_body(instance_mir(InstanceOf(item), cg)).items
      [] item.kind = "Static" ->
            {StaticDropItem(item.of)}
                \cup Range(WalkProvenance(eval_static_initializer(item.of).provenance).items)
      [] OTHER -> {}

\* The items reachable from a frontier, given the items whose neighbours
\* have been taken: the neighbours of each item are computed once.
RECURSIVE LeastClosedFrom(_, _, _)
LeastClosedFrom(done, frontier, cg) ==
    IF frontier = {}
    THEN done
    ELSE CHOOSE closed \in
            {LeastClosedFrom(seen, new \ seen, cg) :
                seen \in {done \cup frontier},
                new \in {UNION {Neighbours(item, cg) : item \in frontier}}} : TRUE

LeastClosed(S, cg) == LeastClosedFrom({}, S, cg)

Returned == 1..Len(results)

Output(i) == Range(results[i])

Roots(i) == Range(calls[i])

NoDuplicates(s) == \A i, j \in 1..Len(s) : i # j => s[i] # s[j]

(***************************************************************************)
(* Properties.  The vectors returned so far are results[1..Len(results)];  *)
(* each of them is the latest one in the state its invocation returns to.  *)
(***************************************************************************)
JustReturned == pc = "idle" /\ results # <<>>

Last == Len(results)

f_item == MonoFn(Instance("Item", "f"))

g_item == MonoFn(Instance("Item", "g"))

\* C1: the set returned by an invocation is the least set that contains the
\* roots and is closed under the edges: it contains every root, it contains
\* the neighbours of each of its items, each of its items is a root or a
\* neighbour of another of its items, and no closed set that contains the
\* roots is smaller.
C1_LeastFixedPoint ==
    JustReturned =>
        /\ Roots(Last) \subseteq Output(Last)
        /\ \A x \in Output(Last) : Neighbours(x, mir_calls) \subseteq Output(Last)
        /\ \A x \in Output(Last) :
              \/ x \in Roots(Last)
              \/ \E y \in Output(Last) \ {x} : x \in Neighbours(y, mir_calls)
        /\ Output(Last) \subseteq LeastClosed(Roots(Last), mir_calls)

\* An invocation on the single root f, which calls itself and g, has returned
\* f, g and what they reach.
C1_Witness ==
    /\ JustReturned
    /\ calls[Last] = <<f_item>>
    /\ mir_calls["f"] = {"f", "g"}
    /\ g_item \in Output(Last)
    /\ MonoFn(Instance("Item", "init_fn")) \in Output(Last)
    /\ Cardinality(Output(Last)) > 10

\* C2: once entered, the loop of reachable_items reaches an empty queue and
\* returns to collect (or the run is aborted by a panic), and the number of
\* visits never exceeds the number of items reachable from the roots given to
\* collect so far.
C2_LoopTerminates ==
    /\ [](BagCardinality(visit_log)
            <= Cardinality(LeastClosed(Range(SubSeq(starting_points, 1, next_root - 1)),
                                       mir_calls)))
    /\ (pc = "loop") ~> (pc = "roots" \/ pc = "aborted")

\* The loop has returned for the root f on a cycle of calls (f calls g and g
\* calls f).
C2_Witness ==
    /\ pc = "roots"
    /\ next_root = 2
    /\ starting_points[1] = f_item
    /\ "g" \in mir_calls["f"]
    /\ "f" \in mir_calls["g"]
    /\ BagCardinality(visit_log) > 2

\* C3: in a traversal no item is dispatched to its visitor more than once.
C3_VisitedAtMostOnce ==
    \A item \in BagToSet(visit_log) : CopiesIn(item, visit_log) = 1

\* An item that has been visited is pending on the queue once more.
C3_Witness ==
    /\ pc = "loop"
    /\ \E k \in 1..Len(queue) : BagIn(queue[k], visit_log)

\* C4: while a visitor runs, the item it visits is in the collected set: the
\* insertion precedes the computation of the neighbours.
C4_MarkedBeforeVisit ==
    pc = "visit" => to_visit \in collected

\* The visitor is about to scan a function that calls itself.
C4_Witness ==
    /\ pc = "visit"
    /\ to_visit.kind = "Fn"
    /\ to_visit \in Neighbours(to_visit, mir_calls)
    /\ to_visit \in collected

\* C5: whatever the order in which the pending items are taken, the returned
\* set is the set of the items reachable from the roots.
C5_PopOrderIrrelevant ==
    JustReturned => Output(Last) = LeastClosed(Roots(Last), mir_calls)

\* The drop glue that visit_static pushed first is visited while the static
\* pushed behind it is still pending: not the order of Vec::pop.
C5_Witness ==
    /\ pc = "visit"
    /\ to_visit = MonoFn(Instance("DropGlueSome", "Holder"))
    /\ MonoStatic("S2") \in Range(queue)

\* C6: the returned vector is in strictly increasing order of fingerprint, and
\* two invocations whose starting points are the same set of items, in any
\* order and under any iteration order of the hash sets, return the same
\* vector.
C6_OrderByContent ==
    JustReturned =>
        /\ \A p, q \in 1..Len(results[Last]) :
              p < q => to_fingerprint(results[Last][p]) < to_fingerprint(results[Last][q])
        /\ \A i \in Returned : Roots(i) = Roots(Last) => results[i] = results[Last]

\* Two different starting points have been given in both orders and more than
\* ten items returned.
C6_Witness ==
    /\ JustReturned
    /\ Last = Len(calls)
    /\ Len(harnesses) = 2
    /\ harnesses[1] # harnesses[2]
    /\ calls[Last] # calls[Last - 1]
    /\ Len(results[Last]) > 10

\* C7: the returned vector has no item twice and is a permutation of the
\* collected set.
C7_NoDuplicates ==
    JustReturned =>
        /\ NoDuplicates(results[Last])
        /\ Output(Last) = collected
        /\ Len(results[Last]) = Cardinality(collected)

\* The same root was given twice and the items it reaches were returned.
C7_Witness ==
    /\ JustReturned
    /\ calls[Last] = <<f_item, f_item>>
    /\ Len(results[Last]) > 3

\* C8: when the starting points of one invocation are among those of another,
\* the items it returns are among those the other returns.
C8_Monotone ==
    JustReturned =>
        \A i \in Returned :
            /\ Roots(i) \subseteq Roots(Last) => Output(i) \subseteq Output(Last)
            /\ Roots(Last) \subseteq Roots(i) => Output(Last) \subseteq Output(i)

\* An invocation on one root and an invocation on that root and another one
\* have returned, the second with more items.
C8_Witness ==
    /\ JustReturned
    /\ \E i \in Returned :
          /\ Roots(i) \subseteq Roots(Last)
          /\ Roots(i) # Roots(Last)
          /\ Roots(i) # {}
          /\ Output(i) # Output(Last)

\* C9: two invocations with the same starting points return the same vector.
C9_Idempotent ==
    JustReturned =>
        \A i \in Returned : calls[i] = calls[Last] => results[i] = results[Last]

\* The same starting points were given to two invocations, which returned
\* several items.
C9_Witness ==
    /\ JustReturned
    /\ \E i \in Returned \ {Last} : calls[i] = calls[Last]
    /\ Len(results[Last]) > 3

\* C10: the invocation on the whole harness list returns the union of what the
\* invocations on each single harness return.
C10_UnionOfClosures ==
    (pc = "idle" /\ Len(results) = Len(harnesses) + 1) =>
        Output(Len(harnesses) + 1) = UNION {Output(i) : i \in 1..Len(harnesses)}

\* Two harnesses whose closures differ and overlap: the second one reaches
\* items that the first one has already put in the shared set.
C10_Witness ==
    /\ pc = "idle"
    /\ Len(results) = Len(harnesses) + 1
    /\ Len(harnesses) = 2
    /\ Output(1) \cap Output(2) # {}
    /\ Output(1) \ Output(2) # {}
    /\ Output(2) \ Output(1) # {}

\* C11: a fatal condition met while a body is scanned (a direct call that
\* does not resolve, a constant that is still generic, a terminator that
\* must not exist at this level, a thread local referenced from constant
\* data) stops the run where it is detected: the run stays at the visit of
\* that body, so the invocation returns no vector.
C11_FatalStopsRun ==
    (/\ BagIn(g_item, visit_log)
     /\ mir_calls["g"] \cap {"ambiguous", "too_generic", "yield", "tls_ptr"} # {})
        => (pc = "aborted" /\ to_visit = g_item)

\* An invocation has returned, and the next one has stopped at a Yield
\* terminator in the body of g.
C11_Witness ==
    /\ pc = "aborted"
    /\ to_visit = g_item
    /\ "yield" \in mir_calls["g"]
    /\ results # <<>>
    /\ Len(results) < Len(calls)

DropPoints(item) ==
    LET body == instance_mir(InstanceOf(item), mir_calls)
    IN  {body[i].place_ty : i \in {j \in 1..Len(body) :
                                     body[j].op \in {"Drop", "DropAndReplace"}}}

DropGlueItem(ty) == MonoFn(polymorphize(resolve_drop_in_place(ty)))

\* C13 as stated: for every drop point of a scanned body the drop glue
\* resolved for the type of the place is a neighbour of the callable and is
\* in the output.
C13_EveryDropEmitsGlue ==
    JustReturned =>
        \A item \in {x \in Output(Last) : x.kind = "Fn"} :
            \A ty \in DropPoints(item) :
                /\ DropGlueItem(ty) \in Neighbours(item, mir_calls)
                /\ DropGlueItem(ty) \in Output(Last)

\* C13, amended: for every drop point whose type needs drop, the drop glue
\* DropGlue(_, Some(ty)) is a neighbour of the callable and is in the output;
\* the drop point of a type that needs no drop emits nothing: its glue
\* DropGlue(_, None) is empty and a direct call of it is not collected.
C13_DropEmitsGlueOfTypesNeedingDrop ==
    JustReturned =>
        \A item \in {x \in Output(Last) : x.kind = "Fn"} :
            \A ty \in DropPoints(item) :
                IF needs_drop(ty)
                THEN /\ DropGlueItem(ty).def = "DropGlueSome"
                     /\ DropGlueItem(ty) \in Neighbours(item, mir_calls)
                     /\ DropGlueItem(ty) \in Output(Last)
                ELSE /\ DropGlueItem(ty).def = "DropGlueNone"
                     /\ visit_terminator(Drop(ty)).items = {}
                     /\ visit_terminator(DropAndReplace(ty)).items = {}

\* The bodies of f (a Drop and a DropAndReplace of a Cat) and of g (which
\* drops a u8 and a &u8) were scanned: the glue of Cat is returned, no glue
\* of &u8 is.
C13_Witness ==
    /\ JustReturned
    /\ {f_item, g_item} \subseteq Output(Last)
    /\ DropPoints(f_item) = {Cat}
    /\ MonoFn(Instance("DropGlueSome", "Cat")) \in Output(Last)
    /\ MonoFn(Instance("DropGlueNone", "&u8")) \notin Output(Last)

\* C14: once a static has been visited, its drop glue has been enqueued; the
\* items of its initializer have been enqueued exactly when the initializer
\* evaluates; and the visit of a static whose initializer does not evaluate
\* does not stop the traversal.
C14_StaticVisitContinues ==
    \A item \in {x \in BagToSet(visit_log) : x.kind = "Static"} :
        LET init == eval_static_initializer(item.of)
            pending == collected \cup Range(queue)
        IN  /\ StaticDropItem(item.of) \in pending
            /\ init.ok => Range(WalkProvenance(init.provenance).items) \subseteq pending
            /\ ~init.ok => ~(pc = "aborted" /\ to_visit = item)

\* C15: when the static S1, whose initializer refers to the static S2, whose
\* initializer refers (through a nested allocation) to the function init_fn,
\* is a root, the output holds S1, S2, init_fn and the drop glue of S1 and of
\* S2; and in every output each static comes with its drop glue and with
\* the eligible statics and functions its initializer refers to.
C15_StaticInitializersFollowed ==
    JustReturned =>
        /\ MonoStatic("S1") \in Roots(Last) =>
                {MonoStatic("S1"), MonoStatic("S2"), MonoFn(Instance("Item", "init_fn")),
                 MonoFn(Instance("DropGlueSome", "Holder")),
                 MonoFn(Instance("DropGlueNone", "FnTable"))} \subseteq Output(Last)
        /\ \A x \in {y \in Output(Last) : y.kind = "Static"} :
                /\ MonoFn(resolve_drop_in_place(StaticTy(x.of))) \in Output(Last)
                /\ Range(WalkProvenance(eval_static_initializer(x.of).provenance).items)
                        \subseteq Output(Last)

\* The invocation on the single root S1 has returned S2 and init_fn.
C15_Witness ==
    /\ JustReturned
    /\ calls[Last] = <<MonoStatic("S1")>>
    /\ MonoStatic("S2") \in Output(Last)
    /\ MonoFn(Instance("Item", "init_fn")) \in Output(Last)
    /\ MonoFn(Instance("Item", "ext_fn")) \notin Output(Last)

CatItems ==
    {MonoFn(Instance("Item", "Cat::speak")), MonoFn(Instance("Item", "Cat::feed")),
     MonoFn(Instance("DropGlueSome", "Cat"))}

DogItems ==
    {MonoFn(Instance("Item", "Dog::speak")), MonoFn(Instance("Item", "Dog::feed")),
     MonoFn(Instance("DropGlueSome", "Dog"))}

\* The casts of a body that coerce a pointer to a concrete type into a
\* pointer to a trait object.
Coercions(item) ==
    LET body == instance_mir(InstanceOf(item), mir_calls)
        casts == {i \in 1..Len(body) : body[i].op = "Cast" /\ body[i].cast = "Unsize"}
    IN  {body[i] : i \in {j \in casts : is_trait(body[j].dst.t)}}

\* C16: a coercion from a concrete type to Animal in a scanned body adds the
\* methods of the implementation of Animal for that type that have a local
\* body and the drop glue of the type, and nothing else: the cast of a Cat in
\* F gives Cat::speak, Cat::feed and the glue of Cat; the cast of a Dog in
\* Dog::speak gives Dog::speak and the glue of Dog, not Dog::feed, which has
\* no MIR.  Nothing of Dog is in an output unless Dog is coerced or its
\* vtable is reached through the initializer of the static TLS.
C16_CoercionPrecision ==
    JustReturned =>
        /\ \A item \in {x \in Output(Last) : x.kind = "Fn"} :
              \A c \in Coercions(item) :
                  LET added == visit_rvalue(c).items
                  IN  /\ added \subseteq Output(Last)
                      /\ c.src.t = Cat => added = CatItems
                      /\ c.src.t = Dog =>
                            added = DogItems \ {MonoFn(Instance("Item", "Dog::feed"))}
        /\ MonoFn(Instance("Item", "F")) \in Output(Last) => CatItems \subseteq Output(Last)
        /\ DogItems \cap Output(Last) # {} => MonoStatic("TLS") \in Output(Last)
        /\ MonoFn(Instance("Item", "Dog::feed")) \notin Output(Last)
        /\ Roots(Last) = {MonoFn(Instance("Item", "H"))} => DogItems \cap Output(Last) = {}

\* The invocation on the root H, which reaches the cast of a Cat in F, has
\* returned the two methods and the glue of Cat.
C16_Witness ==
    /\ JustReturned
    /\ Roots(Last) = {MonoFn(Instance("Item", "H"))}
    /\ CatItems \subseteq Output(Last)

H_item == MonoFn(Instance("Item", "H"))

\* The number of positions of a vector that hold an item.
Occurrences(vec, item) == Cardinality({i \in 1..Len(vec) : vec[i] = item})

CycleClosure ==
    {f_item, g_item,
     MonoStatic("S1"), MonoFn(Instance("DropGlueSome", "Holder")),
     MonoFn(Instance("DropGlueSome", "Cat")),
     MonoStatic("S2"), MonoFn(Instance("DropGlueNone", "FnTable")),
     MonoFn(Instance("Item", "init_fn")), MonoFn(Instance("ReifyShim", "tracked_fn")),
     MonoFn(Instance("Item", "tracked_fn")),
     MonoStatic("TLS"), MonoFn(Instance("DropGlueNone", "u8")),
     MonoFn(Instance("Item", "Dog::speak")), MonoFn(Instance("DropGlueSome", "Dog")),
     MonoFn(Instance("ReifyShim", "ext_tracked_fn")),
     MonoFn(Instance("ClosureOnceShim", closure0)), MonoFn(Instance("Item", closure0))}

\* f calls g and g calls f, in bodies the collector accepts, and f is the
\* single root.
MutualRecursion ==
    /\ calls = <<(<<f_item>>)>>
    /\ "g" \in mir_calls["f"]
    /\ "f" \in mir_calls["g"]
    /\ mir_calls["g"] \cap FaultCallees = {}

\* C18: when f and g call each other, the invocation on the root f returns;
\* its vector holds f and g once each and, besides them, only the items
\* reachable from their bodies: the statics they refer to, the drop glue of
\* these statics and what those reach.
C18_CycleTerminates ==
    MutualRecursion ~>
        (/\ JustReturned
         /\ Occurrences(results[1], f_item) = 1
         /\ Occurrences(results[1], g_item) = 1
         /\ NoDuplicates(results[1])
         /\ Output(1) = CycleClosure
         /\ Output(1) = LeastClosed({f_item}, mir_calls))

\* The invocation on the root f has returned on a cycle between f and g in
\* which f also calls itself.
C18_Witness ==
    /\ MutualRecursion
    /\ JustReturned
    /\ "f" \in mir_calls["f"]
    /\ g_item \in Output(1)

init_fn_item == MonoFn(Instance("Item", "init_fn"))

\* The items that are queued, collected or returned.
Known == collected \cup Range(queue) \cup UNION {Output(i) : i \in Returned}

\* C19: the body of init_fn takes the address of the foreign function
\* ext_addr_fn, which nothing calls.  No item of ext_addr_fn is ever queued,
\* collected or returned; the scan of init_fn does not stop the run; and an
\* output that holds init_fn holds everything else that is reachable, in
\* particular what the rest of the body of init_fn refers to.
C19_AddressOfForeignItem ==
    /\ \A item \in Known : item.of # "ext_addr_fn"
    /\ BagIn(init_fn_item, visit_log) => ~(pc = "aborted" /\ to_visit = init_fn_item)
    /\ (JustReturned /\ init_fn_item \in Output(Last)) =>
            /\ MonoFn(Instance("ReifyShim", "tracked_fn")) \in Output(Last)
            /\ MonoFn(Instance("Item", "tracked_fn")) \in Output(Last)
            /\ Output(Last) = LeastClosed(Roots(Last), mir_calls)

\* The body of init_fn has been scanned and the invocation has returned.
C19_Witness ==
    /\ JustReturned
    /\ BagIn(init_fn_item, visit_log)
    /\ init_fn_item \in Output(Last)
    /\ ReifyFnPointer("ext_addr_fn")
            \in Range(instance_mir(Instance("Item", "init_fn"), mir_calls))

\* The kinds of instance that are synthesized on demand.
ShimKinds ==
    {"VTableShim", "ReifyShim", "FnPtrShim", "Virtual", "Intrinsic", "ClosureOnceShim",
     "DropGlueNone", "CloneShim"}

\* The definitions of the crate that are foreign or have no MIR.
NoLocalBody == {"ext_fn", "ext_addr_fn", "ext_tracked_fn", "ext_static", "ext_tls",
                "no_mir_fn", "Dog::feed"}

\* C20: should_codegen_locally is false for an item whose definition is
\* foreign or has no MIR and true for every instance of a kind synthesized
\* on demand, also when the definition it is made for is foreign: the
\* ReifyShim of the foreign ext_tracked_fn is collected by the scan of
\* Dog::speak.  A call of an ineligible function (g calls the foreign ext_fn,
\* init_fn calls no_mir_fn, the ReifyShim calls ext_tracked_fn) is dropped:
\* the callee is never queued, collected or returned and the scan does not
\* stop the run.
C20_EligibilityFilter ==
    /\ \A def_id \in Range(DefPathOrder) :
          /\ should_codegen_locally(Instance("Item", def_id)) = (def_id \notin NoLocalBody)
          /\ \A kind \in ShimKinds : should_codegen_locally(Instance(kind, def_id))
    /\ \A item \in Known :
          item.def = "Item" => item.of \notin {"ext_fn", "no_mir_fn", "ext_tracked_fn"}
    /\ \A item \in BagToSet(visit_log) :
          (/\ item.kind = "Fn"
           /\ \E def_id \in NoLocalBody :
                  Call(def_id) \in Range(instance_mir(InstanceOf(item), mir_calls))
           /\ item = g_item => mir_calls["g"] \cap FaultCallees = {})
              => ~(pc = "aborted" /\ to_visit = item)
    /\ BagIn(MonoFn(Instance("Item", "Dog::speak")), visit_log) =>
            MonoFn(Instance("ReifyShim", "ext_tracked_fn")) \in Known

\* The ReifyShim of the foreign ext_tracked_fn and the body of g, which calls
\* the foreign ext_fn, have been scanned, and the invocation has returned.
C20_Witness ==
    /\ JustReturned
    /\ BagIn(g_item, visit_log)
    /\ BagIn(MonoFn(Instance("ReifyShim", "ext_tracked_fn")), visit_log)
    /\ MonoFn(Instance("ReifyShim", "ext_tracked_fn")) \in Output(Last)

\* The roots of the running invocation that collect has not pushed yet.
PendingRoots == Range(SubSeq(starting_points, next_root, Len(starting_points)))

\* C21 as stated: an item is popped only when every root has been pushed.
C21_AllRootsPushedBeforeFirstPop ==
    [][Pop => next_root > Len(starting_points)]_vars

\* C21, amended: the roots are pushed one at a time.  collect pushes its
\* root on an empty worklist and the worklist is drained before the next
\* root is pushed, so items are popped while later roots are not yet
\* pushed; an item is popped only after the first root has been pushed, and
\* the vector is returned only when every root has been pushed.
C21_RootsPushedOneAtATime ==
    [][/\ Collect => /\ queue = <<>>
                     /\ queue' = <<starting_points[next_root]>>
                     /\ next_root' = next_root + 1
       /\ Pop => /\ next_root > 1
                 /\ Range(queue) \cup collected
                        \subseteq LeastClosed(Range(SubSeq(starting_points, 1, next_root - 1)),
                                              mir_calls)
       /\ Finish => next_root > Len(starting_points) /\ queue = <<>>]_vars

\* The first root is being visited while the second root, which the first
\* does not reach, has not been pushed.
C21_Witness ==
    /\ pc = "visit"
    /\ Len(starting_points) = 2
    /\ next_root = 2
    /\ to_visit = starting_points[1]
    /\ starting_points[2] \notin collected \cup Range(queue)

\* The direct calls in the body of an item.
DirectCalls(item) ==
    {instr \in Range(instance_mir(InstanceOf(item), mir_calls)) :
        instr.op = "Call" /\ instr.fn_ty.k = "FnDef"}

\* C22: a direct call of a function definition that Instance::resolve
\* resolves adds at most the one instance it resolves to; a direct call for
\* which Instance::resolve returns no candidate ("ambiguous") or an error
\* ("resolve_err") stops the run at the scan of the calling body: nothing the
\* scan of g found (the thread local TLS) is queued or collected, and the
\* running invocation returns no vector.
C22_UnresolvedCallIsFatal ==
    /\ \A item \in {x \in BagToSet(visit_log) : x.kind = "Fn"} :
          \A instr \in DirectCalls(item) :
              LET r == InstanceResolve(instr.fn_ty.def_id)
              IN  IF r.res = "Ok"
                  THEN /\ visit_terminator(instr).items
                              \subseteq {MonoFn(polymorphize(r.instance))}
                       /\ ~visit_terminator(instr).fatal
                  ELSE /\ visit_terminator(instr) = Fatal
                       /\ pc = "aborted"
                       /\ to_visit = item
    /\ (/\ BagIn(g_item, visit_log)
        /\ mir_calls["g"] \cap {"ambiguous", "resolve_err"} # {})
            => /\ pc = "aborted"
               /\ to_visit = g_item
               /\ MonoStatic("TLS") \notin collected \cup Range(queue)
               /\ Len(results) < Len(calls)
               /\ \A i \in Returned : g_item \notin Output(i)

\* The run has stopped at the scan of g, which calls a function for which
\* Instance::resolve returns an error, after g was reached from the root f.
C22_Witness ==
    /\ pc = "aborted"
    /\ to_visit = g_item
    /\ "resolve_err" \in mir_calls["g"]
    /\ f_item \in collected
    /\ Call("resolve_err") \in DirectCalls(g_item)

\* The casts of a body that turn a function or a closure into a function
\* pointer.
FnPointerCasts(item) ==
    {instr \in Range(instance_mir(InstanceOf(item), mir_calls)) :
        instr.op = "Cast" /\ instr.cast \in {"ReifyFnPointer", "ClosureFnPointer"}}

\* The instance resolved for such a cast: Instance::resolve_for_fn_ptr for a
\* function, Instance::resolve_closure (call once) for a closure.
ResolvedForPointer(cast) ==
    IF cast.cast = "ReifyFnPointer"
    THEN CHOOSE i \in resolve_for_fn_ptr(cast.fn_ty.def_id) : TRUE
    ELSE resolve_closure(cast.src.def_id)

G_item == MonoFn(Instance("Item", "G"))

closure_shim_item == MonoFn(Instance("ClosureOnceShim", closure0))

EntriesOfKind(ty, kind) ==
    {e \in Range(vtable_entries(ty, "Animal")) : e.e = kind}

\* C24: collect_vtable_methods adds, for a concrete type and a trait object
\* type, the methods of the table that pass should_codegen_locally, among
\* them the inherited speak, and the drop glue of the concrete type, and
\* nothing for the metadata entries, the vacant entry, the supertrait
\* pointer and the method feed of Dog, which has no MIR; a trait object type
\* without principal trait and a type that has no entry in the table give
\* the drop glue alone.  In a run, what a coercion in a scanned body adds is
\* in the output, the drop glue of the coerced type included.
C24_InterfaceResolver ==
    /\ collect_vtable_methods(Cat, Animal) = [items |-> CatItems, fatal |-> FALSE]
    /\ collect_vtable_methods(Dog, Animal) =
            [items |-> DogItems \ {MonoFn(Instance("Item", "Dog::feed"))}, fatal |-> FALSE]
    /\ \A ty \in {Cat, Dog, Holder, U8} :
          /\ collect_vtable_methods(ty, DynSend) =
                  [items |-> {DropGlueItem(ty)}, fatal |-> FALSE]
          /\ DropGlueItem(ty) \in collect_vtable_methods(ty, Animal).items
          /\ collect_vtable_methods(ty, Animal).items \ {DropGlueItem(ty)} =
                  {MonoFn(polymorphize(e.instance)) :
                      e \in {m \in EntriesOfKind(ty, "Method") :
                                should_codegen_locally(m.instance)}}
    /\ JustReturned =>
          \A item \in {x \in Output(Last) : x.kind = "Fn"} :
              \A c \in Coercions(item) :
                  /\ collect_vtable_methods(c.src.t, c.dst.t).items
                          \subseteq Neighbours(item, mir_calls) \cap Output(Last)
                  /\ DropGlueItem(c.src.t) \in Output(Last)

\* An invocation has returned with the coercion of a Dog to Animal in
\* Dog::speak and the coercion of a Cat to Animal in F scanned; the table of
\* Dog has metadata entries, a vacant entry, a supertrait pointer and a
\* method without MIR.
C24_Witness ==
    /\ JustReturned
    /\ Unsize(TyBox(Dog), TyBox(Animal))
            \in Coercions(MonoFn(Instance("Item", "Dog::speak")))
    /\ Unsize(TyRef(Cat), TyRef(Animal)) \in Coercions(MonoFn(Instance("Item", "F")))
    /\ {MonoFn(Instance("Item", "Dog::speak")), MonoFn(Instance("Item", "F")),
         MonoFn(Instance("DropGlueSome", "Dog")), MonoFn(Instance("Item", "Cat::feed"))}
            \subseteq Output(Last)
    /\ \A kind \in {"MetadataDropInPlace", "MetadataSize", "MetadataAlign", "Vacant",
                     "TraitVPtr"} : EntriesOfKind(Dog, kind) # {}
    /\ \E m \in EntriesOfKind(Dog, "Method") : ~should_codegen_locally(m.instance)

EvaluatedConstants(item) ==
    {instr \in Range(instance_mir(InstanceOf(item), mir_calls)) :
        /\ instr.op = "Constant"
        /\ \/ instr.literal.ck \in {"Val", "TyValue"}
           \/ instr.literal.ck = "TyUnevaluated" /\ instr.literal.eval = "Ok"}

ReferencedAllocs(value) ==
    CASE value.cv = "ScalarPtr" -> {value.alloc_id}
      [] value.cv \in {"Slice", "ByRef"} -> Range(value.provenance)
      [] OTHER -> {}

\* C26: a constant whose evaluation fails with an error that was reported
\* adds no edge and does not stop the scan: the body of init_fn, which holds
\* such a constant, is scanned to its end, and what the instructions behind
\* the constant add (the ReifyShim of tracked_fn) is queued.  For a constant
\* that evaluates, the items that collect_alloc_items gives for every
\* allocation its value refers to are neighbours of the scanned callable
\* and are in the output.
C26_ConstantEvaluation ==
    /\ visit_constant(ConstEvalError) = NoEdge
    /\ BagIn(init_fn_item, visit_log) =>
            /\ ConstEvalError \in Range(instance_mir(InstanceOf(init_fn_item), mir_calls))
            /\ ~(pc = "aborted" /\ to_visit = init_fn_item)
            /\ MonoFn(Instance("ReifyShim", "tracked_fn")) \in collected \cup Range(queue)
    /\ JustReturned =>
            \A item \in {x \in Output(Last) : x.kind = "Fn"} :
                \A c \in EvaluatedConstants(item) :
                    \A alloc_id \in ReferencedAllocs(c.literal.val) :
                        /\ ~collect_alloc_items(alloc_id).fatal
                        /\ Range(collect_alloc_items(alloc_id).items)
                                \subseteq Neighbours(item, mir_calls) \cap Output(Last)

\* An invocation has returned init_fn, whose body holds a constant that does
\* not evaluate and a constant whose value refers to the static S2 and to a
\* table of function pointers, and f, whose body holds a pointer to S1.
C26_Witness ==
    /\ JustReturned
    /\ {f_item, init_fn_item, MonoStatic("S1"), MonoStatic("S2"),
         MonoFn(Instance("ReifyShim", "tracked_fn"))} \subseteq Output(Last)
    /\ ConstEvalError \in Range(instance_mir(InstanceOf(init_fn_item), mir_calls))
    /\ ConstByRef(<<"alloc_S2", "alloc_table">>) \in EvaluatedConstants(init_fn_item)
    /\ ConstPtr("alloc_S1") \in EvaluatedConstants(f_item)

UnexpectedKinds == {"GeneratorDrop", "Yield", "FalseEdge", "FalseUnwind"}

\* The chosen instruction of g that stands for a terminator kind.
FaultOfKind(kind) ==
    CASE kind = "GeneratorDrop" -> "generator_drop"
      [] kind = "Yield" -> "yield"
      [] kind = "FalseEdge" -> "false_edge"
      [] kind = "FalseUnwind" -> "false_unwind"

\* C27: a GeneratorDrop, Yield, FalseEdge or FalseUnwind terminator in a
\* scanned body is fatal: the run stops at the scan of the body of g that
\* holds it, nothing that scan found is queued or collected, and no vector
\* that holds g is returned.
C27_UnexpectedTerminatorIsFatal ==
    \A kind \in UnexpectedKinds :
        /\ visit_terminator(Terminator(kind)) = Fatal
        /\ (BagIn(g_item, visit_log) /\ FaultOfKind(kind) \in mir_calls["g"]) =>
                /\ Terminator(kind) \in Range(instance_mir(InstanceOf(g_item), mir_calls))
                /\ pc = "aborted"
                /\ to_visit = g_item
                /\ MonoStatic("TLS") \notin collected \cup Range(queue)
                /\ Len(results) < Len(calls)
                /\ \A i \in Returned : g_item \notin Output(i)

\* The run has stopped at the scan of g, whose body holds a FalseUnwind
\* terminator, in the second invocation of the run.
C27_Witness ==
    /\ pc = "aborted"
    /\ to_visit = g_item
    /\ "false_unwind" \in mir_calls["g"]
    /\ Len(results) = 1

NoEdgeKinds ==
    {"InlineAsm", "Goto", "SwitchInt", "Resume", "Return", "Unreachable", "Abort",
     "Assert"}

\* C28: an InlineAsm, Goto, SwitchInt, Resume, Return, Unreachable, Abort or
\* Assert terminator adds no item and is not fatal: the scan of the body of
\* H, which holds each of them behind its call of F, adds F alone and does
\* not stop the run, and in every body the items added are those of its
\* other instructions.
C28_NoEdgeTerminators ==
    /\ \A kind \in NoEdgeKinds : visit_terminator(Terminator(kind)) = NoEdge
    /\ NoEdgeKinds \subseteq {t.op : t \in Range(instance_mir(InstanceOf(H_item), mir_calls))}
    /\ Neighbours(H_item, mir_calls) = {MonoFn(Instance("Item", "F"))}
    /\ BagIn(H_item, visit_log) =>
            /\ ~(pc = "aborted" /\ to_visit = H_item)
            /\ MonoFn(Instance("Item", "F")) \in collected \cup Range(queue)
    /\ \A item \in {x \in BagToSet(visit_log) : x.kind = "Fn"} :
            LET body == instance_mir(InstanceOf(item), mir_calls)
            IN  visit_body(body).items =
                    visit_body(SelectSeq(body, LAMBDA t : t.op \notin NoEdgeKinds)).items

\* The invocation on the root H, whose body holds an inline assembly block
\* and the terminators without edge, has returned.
C28_Witness ==
    /\ JustReturned
    /\ calls[Last] = <<H_item>>
    /\ BagIn(H_item, visit_log)
    /\ Terminator("InlineAsm") \in Range(instance_mir(InstanceOf(H_item), mir_calls))
    /\ Output(Last) # {}

\* The allocation identifiers of the crate.
AllocIds ==
    {"alloc_S1", "alloc_S2", "alloc_ext_static", "alloc_S_err", "alloc_TLS",
     "alloc_init_fn", "alloc_ext_fn", "alloc_table", "alloc_inner", "alloc_dog_speak",
     "alloc_dog_feed", "alloc_dog_drop", "alloc_vtable_dog", "alloc_vtable_dog_bytes",
     "alloc_empty", "alloc_S3", "alloc_S4"}

Walked(items) == [items |-> items, fatal |-> FALSE]

dog_speak_item == MonoFn(Instance("Item", "Dog::speak"))

dog_glue_item == MonoFn(Instance("DropGlueSome", "Dog"))

\* C29: collect_alloc_items gives the static for an allocation that is a
\* static that can be translated locally and the function for one that is
\* such a function, nothing for a foreign static, a foreign function and a
\* function without MIR; for a memory allocation the results for the
\* allocations of its provenance, in order, nested memory included; for an
\* implementation table what the walk of the allocation that
\* tcx.vtable_allocation materializes gives.  In a run, the visit of the
\* statics S2 and TLS queues what the walk of their initializers gives.
C29_AllocationWalker ==
    /\ collect_alloc_items("alloc_S1") = Walked(<<MonoStatic("S1")>>)
    /\ collect_alloc_items("alloc_init_fn") = Walked(<<init_fn_item>>)
    /\ \A id \in {"alloc_ext_static", "alloc_ext_fn", "alloc_dog_feed", "alloc_empty"} :
          collect_alloc_items(id) = Walked(<<>>)
    /\ collect_alloc_items("alloc_inner") = Walked(<<init_fn_item>>)
    /\ collect_alloc_items("alloc_table") = Walked(<<init_fn_item>>)
    /\ collect_alloc_items("alloc_vtable_dog_bytes") = Walked(<<dog_glue_item, dog_speak_item>>)
    /\ collect_alloc_items("alloc_vtable_dog") =
            collect_alloc_items(vtable_allocation(Dog, "Animal"))
    /\ collect_alloc_items("alloc_vtable_dog") = Walked(<<dog_glue_item, dog_speak_item>>)
    /\ \A id \in AllocIds :
          LET ga == GlobalAlloc(id)
              r == collect_alloc_items(id)
          IN  /\ ga.ga = "Memory" =>
                    \A sub \in Range(ga.provenance) :
                        Range(collect_alloc_items(sub).items) \subseteq Range(r.items)
              /\ \A x \in Range(r.items) : should_codegen_locally(InstanceOf(x))
              /\ \A x \in Range(r.items) :
                    x.kind = "Static" => ~is_foreign_item(x.of)
    /\ BagIn(MonoStatic("S2"), visit_log) => init_fn_item \in collected \cup Range(queue)
    /\ BagIn(MonoStatic("TLS"), visit_log) =>
            {dog_glue_item, dog_speak_item} \subseteq collected \cup Range(queue)
    /\ \A x \in Known : x.of \notin {"ext_static", "ext_fn", "Dog::feed"}

\* An invocation has returned after the visits of S2, whose initializer
\* refers to nested memory, and of TLS, whose initializer refers to the
\* implementation table of Animal for Dog.
C29_Witness ==
    /\ JustReturned
    /\ BagIn(MonoStatic("S2"), visit_log)
    /\ BagIn(MonoStatic("TLS"), visit_log)
    /\ {init_fn_item, dog_glue_item, dog_speak_item} \subseteq Output(Last)
    /\ GlobalAlloc("alloc_vtable_dog").ga = "VTable"
    /\ GlobalAlloc("alloc_inner").ga = "Memory"

\* C30: collect_alloc_items fails on an allocation that is a thread local
\* static, alone or inside walked data: the body of g with a constant
\* pointer to TLS stops the run at its scan.  The static TLS is queued or
\* collected only after a scan of the body of g that holds the thread local
\* reference and no such pointer; no walk of an allocation gives it.
C30_ThreadLocalInConstantData ==
    /\ collect_alloc_items("alloc_TLS").fatal
    /\ WalkProvenance(<<"alloc_S2", "alloc_TLS">>).fatal
    /\ \A id \in AllocIds : MonoStatic("TLS") \notin Range(collect_alloc_items(id).items)
    /\ (BagIn(g_item, visit_log) /\ "tls_ptr" \in mir_calls["g"]) =>
            /\ ConstPtr("alloc_TLS") \in Range(instance_mir(InstanceOf(g_item), mir_calls))
            /\ pc = "aborted"
            /\ to_visit = g_item
            /\ Len(results) < Len(calls)
    /\ MonoStatic("TLS") \in Known =>
            /\ BagIn(g_item, visit_log) \/ \E i \in Returned : g_item \in Output(i)
            /\ "tls_ptr" \notin mir_calls["g"]
            /\ ThreadLocalRef("TLS") \in Range(instance_mir(InstanceOf(g_item), mir_calls))
            /\ MonoStatic("TLS") \in visit_rvalue(ThreadLocalRef("TLS")).items

\* The run has stopped at the scan of g, whose body holds a constant pointer
\* to the thread local TLS behind the thread local reference.
C30_Witness ==
    /\ pc = "aborted"
    /\ to_visit = g_item
    /\ "tls_ptr" \in mir_calls["g"]
    /\ MonoStatic("TLS") \in visit_rvalue(ThreadLocalRef("TLS")).items
    /\ MonoStatic("TLS") \notin Known

\* The thread local references of a body.
ThreadLocalRefs(item) ==
    {instr \in Range(instance_mir(InstanceOf(item), mir_calls)) :
        instr.op = "ThreadLocalRef"}

\* C31: a thread local reference adds the static it names exactly when the
\* static passes should_codegen_locally: the reference to TLS adds the static
\* TLS, the reference to the foreign thread local ext_tls adds nothing and is
\* not fatal.  In a run, every thread local reference of a scanned body has
\* its eligible static queued or collected, the scan of g, whose body holds
\* both references, is stopped by none of them, and no item of ext_tls is
\* ever queued, collected or returned.
C31_ThreadLocalReference ==
    /\ visit_rvalue(ThreadLocalRef("TLS")) =
            [items |-> {MonoStatic("TLS")}, fatal |-> FALSE]
    /\ visit_rvalue(ThreadLocalRef("ext_tls")) = NoEdge
    /\ \A item \in {x \in BagToSet(visit_log) : x.kind = "Fn"} :
          \A r \in ThreadLocalRefs(item) :
              /\ should_codegen_locally(InstanceMono(r.def_id)) =
                      (visit_rvalue(r).items = {MonoStatic(r.def_id)})
              /\ ~should_codegen_locally(InstanceMono(r.def_id)) =
                      (visit_rvalue(r).items = {})
              /\ ~visit_rvalue(r).fatal
              /\ (pc # "aborted" /\ should_codegen_locally(InstanceMono(r.def_id))) =>
                      MonoStatic(r.def_id) \in collected \cup Range(queue)
    /\ (BagIn(g_item, visit_log) /\ mir_calls["g"] \cap FaultCallees = {}) =>
            /\ ~(pc = "aborted" /\ to_visit = g_item)
            /\ MonoStatic("TLS") \in collected \cup Range(queue)
    /\ \A x \in Known : x.of # "ext_tls"

\* An invocation has returned g, whose body refers to the thread local TLS
\* and to the foreign thread local ext_tls, with the static TLS.
C31_Witness ==
    /\ JustReturned
    /\ {g_item, MonoStatic("TLS")} \subseteq Output(Last)
    /\ {ThreadLocalRef("TLS"), ThreadLocalRef("ext_tls")} \subseteq ThreadLocalRefs(g_item)
    /\ ~should_codegen_locally(InstanceMono("ext_tls"))

(***************************************************************************)
(* Unsizing casts.  visit_rvalue is given one cast Unsize(source, target)  *)
(* on its own: the source and target are a pointer form around a pointee   *)
(* that is nested in Wrapper<..> a number of times.                        *)
(*   struct Wrapper<T: ?Sized> { tag: u8, value: T }                       *)
(*   struct Rc<T: ?Sized> { ptr: NonNull<RcBox<T>>, phantom: PhantomData } *)
(*   struct NonNull<T: ?Sized> { pointer: *const T }                       *)
(*   struct RcBox<T: ?Sized> { strong: u8, weak: u8, value: T }            *)
(* Rc and NonNull implement CoerceUnsized on their first field.            *)
(***************************************************************************)
MaxNesting == 2

Speaker == TyDyn("Speaker")

PhantomData == TyNamed("PhantomData")

Wrapper(t) == TyStruct("Wrapper", <<U8, t>>, 0)

RcBox(t) == TyStruct("RcBox", <<U8, U8, t>>, 0)

NonNull(t) == TyStruct("NonNull", <<TyRawPtr(t)>>, 1)

Rc(t) == TyStruct("Rc", <<NonNull(RcBox(t)), PhantomData>>, 1)

RECURSIVE Nested(_, _)
Nested(t, depth) == IF depth = 0 THEN t ELSE Wrapper(Nested(t, depth - 1))

\* The cast of a pointer to `inner[1]` in `depth` wrappers to a pointer to
\* `inner[2]` in as many, in one of the pointer forms: &T to &U, &T to
\* *const U, *const T to *const U, Box<T> to Box<U>, Rc<T> to Rc<U>.
UnsizeCast(form, inner, depth) ==
    LET SourcePointer(t) ==
            CASE form \in {"Ref", "RefToRaw"} -> TyRef(t)
              [] form = "Raw" -> TyRawPtr(t)
              [] form = "Box" -> TyBox(t)
              [] form = "Rc" -> Rc(t)
        TargetPointer(t) ==
            CASE form = "Ref" -> TyRef(t)
              [] form \in {"RefToRaw", "Raw"} -> TyRawPtr(t)
              [] form = "Box" -> TyBox(t)
              [] form = "Rc" -> Rc(t)
    IN  Unsize(SourcePointer(Nested(inner[1], depth)),
               TargetPointer(Nested(inner[2], depth)))

collector == <<mir_calls, harnesses, calls, results, pc, starting_points, next_root,
               collected, queue, to_visit, hash_seed, visit_log>>

\* No collector has been created.
CollectorIdle ==
    /\ mir_calls = [fn \in VarFns |-> {}]
    /\ harnesses = <<>>
    /\ calls = <<>>
    /\ results = <<>>
    /\ pc = "idle"
    /\ starting_points = <<>>
    /\ next_root = 1
    /\ collected = {}
    /\ queue = <<>>
    /\ to_visit = NoItem
    /\ hash_seed = 1
    /\ visit_log = EmptyBag

\* One cast is about to be visited.  The innermost types of the casts: a
\* concrete type to a trait object, an array to a slice, a trait object to
\* the trait object of a supertrait.
InitUnsize ==
    /\ CollectorIdle
    /\ mir_pass = NotRunning
    /\ unsizing \in {[pc |-> "cast", form |-> form, inner |-> inner, depth |-> depth,
                       rvalue |-> UnsizeCast(form, inner, depth),
                       pair |-> <<>>, edges |-> NoEdge] :
                          form \in {"Ref", "RefToRaw", "Raw", "Box", "Rc"},
                          inner \in {<<Cat, Animal>>, <<Dog, Animal>>, <<Cat, DynSend>>,
                                     <<Holder, DynSend>>, <<U8, DynSend>>,
                                     <<TyArray(U8), TySlice(U8)>>, <<Animal, Speaker>>},
                          depth \in 0..MaxNesting}

\* extract_trait_casting on the types of the cast.
ExtractTraitCasting ==
    /\ unsizing.pc = "cast"
    /\ \E x \in {extract_trait_casting(unsizing.rvalue.src, unsizing.rvalue.dst)} :
          unsizing' = [unsizing EXCEPT !.pc = IF x.fatal THEN "aborted" ELSE "extracted",
                                       !.pair = x.pair]
    /\ UNCHANGED <<collector, mir_pass>>

\* visit_rvalue on the cast: edges is what it adds to the collector's set.
VisitRvalue ==
    /\ unsizing.pc = "extracted"
    /\ \E r \in {visit_rvalue(unsizing.rvalue)} :
          unsizing' = [unsizing EXCEPT !.pc = IF r.fatal THEN "aborted" ELSE "visited",
                                       !.edges = r]
    /\ UNCHANGED <<collector, mir_pass>>

NextUnsize ==
    \/ ExtractTraitCasting
    \/ VisitRvalue

SpecUnsize == InitUnsize /\ [][NextUnsize]_vars

Extracted == unsizing.pc \in {"extracted", "visited"}

\* The pointee of the pointer layer that the extraction reaches: for Rc the
\* RcBox behind the NonNull pointer.
Pointee(form, t) == IF form = "Rc" THEN RcBox(t) ELSE t

\* C32 as stated: for every unsizing cast the extracted pair is the innermost
\* pair of the nested wrappers.
C32_InnermostPair ==
    Extracted => unsizing.pair = unsizing.inner

\* C32, amended: the extraction unwraps one reference, raw pointer or Box on
\* both sides, and for a struct with coercion info (Rc, NonNull) recurses on
\* the designated field of source and target, which must be the same
\* definition with the same number of fields.  When the pointee of the
\* source is sized, the pair is the innermost pair of the nested wrappers:
\* Rc<Wrapper<String>> to Rc<Wrapper<dyn Debug>> gives (String, dyn Debug).
\* When the pointee of the source is unsized already (Wrapper<dyn Animal>
\* to Wrapper<dyn Speaker>), the pair is the two pointees as they are.
C32_InnermostPairOfSizedSource ==
    /\ find_vtable_types_for_unsizing(Rc(Wrapper(TyNamed("String"))),
                                      Rc(Wrapper(TyDyn("Debug")))) =
            [pair |-> <<TyNamed("String"), TyDyn("Debug")>>, fatal |-> FALSE]
    /\ find_vtable_types_for_unsizing(Rc(Cat), NonNull(RcBox(Animal))).fatal
    /\ find_vtable_types_for_unsizing(
            Rc(Cat), TyStruct("Rc", <<NonNull(RcBox(Animal))>>, 1)).fatal
    /\ find_vtable_types_for_unsizing(Wrapper(Cat), Wrapper(Animal)).fatal
    /\ Extracted =>
          LET source == Nested(unsizing.inner[1], unsizing.depth)
              target == Nested(unsizing.inner[2], unsizing.depth)
          IN  /\ unsizing.form = "Rc" =>
                    /\ unsizing.rvalue.src.n = unsizing.rvalue.dst.n
                    /\ Len(unsizing.rvalue.src.fields) = Len(unsizing.rvalue.dst.fields)
                    /\ unsizing.rvalue.src.fields[1].fields[1] =
                            TyRawPtr(Pointee("Rc", source))
              /\ unsizing.form # "Rc" => unsizing.rvalue.src.t = source
              /\ IF is_sized(source)
                 THEN unsizing.pair = unsizing.inner
                 ELSE unsizing.pair = <<Pointee(unsizing.form, source),
                                        Pointee(unsizing.form, target)>>

\* The pair (Cat, dyn Animal) has been extracted from the cast of an Rc of a
\* Cat in nested wrappers to an Rc of a dyn Animal in the same wrappers.
C32_Witness ==
    /\ Extracted
    /\ unsizing.form = "Rc"
    /\ unsizing.depth = MaxNesting
    /\ unsizing.rvalue.src = Rc(Wrapper(Nested(Cat, MaxNesting - 1)))
    /\ unsizing.rvalue.dst = Rc(Wrapper(Nested(Animal, MaxNesting - 1)))
    /\ unsizing.pair = <<Cat, Animal>>

asm_item == MonoGlobalAsm("asm0")

\* C33: the visit of a global assembly item leaves the queue as it is and
\* leaves the item, which the loop inserted before the visit, in the
\* collected set, to which it adds nothing else; the item is in the vector
\* that the invocation returns.
C33_AsmRecordedNotExpanded ==
    /\ [][VisitAsm => /\ queue' = queue
                      /\ to_visit \in collected'
                      /\ collected' = collected \cup {to_visit}
                      /\ Neighbours(to_visit, mir_calls) = {}]_vars
    /\ [](\A item \in BagToSet(visit_log) : item.kind = "GlobalAsm" => item \in collected)
    /\ [](JustReturned =>
            /\ asm_item \in Roots(Last) => asm_item \in Output(Last)
            /\ Roots(Last) = {asm_item} => results[Last] = <<asm_item>>)

\* An invocation on a function and the global assembly item has returned
\* both, after the visit of the assembly item.
C33_Witness ==
    /\ JustReturned
    /\ calls[Last] = <<MonoFn(Instance("Item", "H")), asm_item>>
    /\ BagIn(asm_item, visit_log)
    /\ asm_item \in Output(Last)
    /\ Len(results[Last]) > 1

\* The eligibility filter on an item: should_codegen_locally on the instance
\* of a function and on Instance::mono of a static.
Eligible(item) ==
    CASE item.kind = "Fn" -> should_codegen_locally(InstanceOf(item))
      [] item.kind = "Static" -> should_codegen_locally(InstanceMono(item.of))
      [] OTHER -> TRUE

\* What the scan of a body (with the vtable methods that its coercions add)
\* and the walk of an initializer give for an item; the drop glue that
\* visit_static pushes by itself is not among them.
Discovered(item) ==
    CASE item.kind = "Fn" -> Neighbours(item, mir_calls)
      [] item.kind = "Static" ->
            Range(WalkProvenance(eval_static_initializer(item.of).provenance).items)
      [] OTHER -> {}

\* The drop glue pushed by visit_static for the statics of a set of items.
StaticGlue(items) == {StaticDropItem(x.of) : x \in {y \in items : y.kind = "Static"}}

\* C34: every item that the scan of a body, collect_vtable_methods or
\* collect_alloc_items adds passes should_codegen_locally, so an item that is
\* queued, collected or returned is eligible unless it is a root or the drop
\* glue that visit_static pushed; every returned item is a root, such a drop
\* glue or an eligible item discovered from another returned item.  The
\* filter is not applied at the pop: an item popped for the first time is
\* inserted and visited whatever it is.
C34_FilterAtEmission ==
    /\ [](\A item \in BagToSet(visit_log) : \A x \in Discovered(item) : Eligible(x))
    /\ [](\A x \in collected \cup Range(queue) :
            \/ Eligible(x)
            \/ x \in Range(starting_points) \cup StaticGlue(collected))
    /\ [](JustReturned =>
            \A x \in Output(Last) :
                \/ x \in Roots(Last) \cup StaticGlue(Output(Last))
                \/ Eligible(x) /\ \E y \in Output(Last) : x \in Discovered(y))
    /\ [][Pop => /\ to_visit' = queue[Len(queue)]
                 /\ queue[Len(queue)] \notin collected =>
                        pc' = "visit" /\ to_visit' \in collected']_vars

\* An invocation has returned items found by the scan of a body (g, which
\* also calls the foreign ext_fn), by collect_vtable_methods (Dog::speak,
\* from a table that holds Dog::feed, which has no MIR) and by
\* collect_alloc_items (init_fn, from memory that refers to the foreign
\* ext_static and ext_fn as well), and drop glue pushed by visit_static.
C34_Witness ==
    /\ JustReturned
    /\ {g_item, dog_speak_item, init_fn_item, MonoStatic("S2"),
         StaticDropItem("S2")} \subseteq Output(Last)
    /\ g_item \notin Roots(Last)
    /\ Call("ext_fn") \in DirectCalls(g_item)
    /\ ~Eligible(MonoStatic("ext_static"))
    /\ ~Eligible(MonoFn(Instance("Item", "Dog::feed")))
    /\ init_fn_item \in Discovered(MonoStatic("S2"))

NoBodyKinds == {"Virtual", "Intrinsic"}

\* C35: collect_instance adds nothing for an instance that is a virtual call
\* or an intrinsic: called directly it gives no edge, used in another way
\* (a function whose address is taken, a closure cast to a function pointer,
\* the drop glue asked for by collect_vtable_methods) it fails an assertion.
\* In a run, no such instance is queued, collected or returned; the scan of
\* G, which calls Animal::speak on a trait object and the intrinsic
\* transmute, adds nothing and goes on; the scan of g with a cast of
\* transmute to a function pointer stops the run.
C35_NoBodyInstances ==
    /\ \A def \in NoBodyKinds : \A of \in {"Animal::speak", "transmute"} :
          /\ collect_instance(Instance(def, of), TRUE) = NoEdge
          /\ collect_instance(Instance(def, of), FALSE) = Fatal
    /\ InstanceResolve("Animal::speak").instance.def = "Virtual"
    /\ InstanceResolve("transmute").instance.def = "Intrinsic"
    /\ visit_terminator(Call("Animal::speak")) = NoEdge
    /\ visit_terminator(Call("transmute")) = NoEdge
    /\ visit_rvalue(ReifyFnPointer("transmute")) = Fatal
    /\ \A x \in Known : x.def \notin NoBodyKinds
    /\ \A item \in {x \in BagToSet(visit_log) : x.kind = "Fn"} :
          \A x \in Neighbours(item, mir_calls) : x.def \notin NoBodyKinds
    /\ BagIn(G_item, visit_log) =>
            /\ {Call("Animal::speak"), Call("transmute")} \subseteq DirectCalls(G_item)
            /\ Neighbours(G_item, mir_calls) = {}
            /\ ~(pc = "aborted" /\ to_visit = G_item)
    /\ (BagIn(g_item, visit_log) /\ "reify_intrinsic" \in mir_calls["g"]) =>
            /\ ReifyFnPointer("transmute") \in FnPointerCasts(g_item)
            /\ pc = "aborted"
            /\ to_visit = g_item
            /\ Len(results) < Len(calls)
            /\ \A i \in Returned : g_item \notin Output(i)

\* An invocation has returned G, whose body calls a virtual method and an
\* intrinsic, and the next one has stopped at the scan of g, whose body
\* casts the intrinsic to a function pointer.
C35_Witness ==
    /\ pc = "aborted"
    /\ to_visit = g_item
    /\ "reify_intrinsic" \in mir_calls["g"]
    /\ \E i \in Returned : G_item \in Output(i)

cat_feed_item == MonoFn(Instance("Item", "Cat::feed"))

\* The calls of a body whose callee operand is a function pointer.
IndirectCalls(item) ==
    {instr \in Range(instance_mir(InstanceOf(item), mir_calls)) :
        instr.op = "Call" /\ instr.fn_ty.k = "FnPtr"}

\* C36: a call through a function pointer adds no item and is not fatal; a
\* call whose callee operand is neither a function definition nor a
\* function pointer is fatal.  In a run, the scan of Cat::feed, which calls
\* through a function pointer, adds nothing and goes on, and what the scan
\* of a body adds is what its other instructions add; the scan of g with a
\* callee of another type stops the run.  A function that is only called
\* through pointers is returned when the cast that takes its address (G, in
\* F) or the constant data that refers to it (init_fn, in the initializer of
\* S2) is reached, and not otherwise.
C36_IndirectCalls ==
    /\ visit_terminator(CallFnPtr) = NoEdge
    /\ visit_terminator(CallOther) = Fatal
    /\ \A item \in {x \in BagToSet(visit_log) : x.kind = "Fn"} :
          LET body == instance_mir(InstanceOf(item), mir_calls)
          IN  /\ \A call \in IndirectCalls(item) : visit_terminator(call).items = {}
              /\ visit_body(body).items =
                    visit_body(SelectSeq(body, LAMBDA t : t \notin IndirectCalls(item))).items
    /\ BagIn(cat_feed_item, visit_log) =>
            /\ IndirectCalls(cat_feed_item) = {CallFnPtr}
            /\ Neighbours(cat_feed_item, mir_calls) = {}
            /\ ~(pc = "aborted" /\ to_visit = cat_feed_item)
    /\ (BagIn(g_item, visit_log) /\ "bad_callee" \in mir_calls["g"]) =>
            /\ CallOther \in Range(instance_mir(InstanceOf(g_item), mir_calls))
            /\ pc = "aborted"
            /\ to_visit = g_item
            /\ Len(results) < Len(calls)
            /\ \A i \in Returned : g_item \notin Output(i)
    /\ JustReturned =>
            /\ G_item \in Output(Last) <=> MonoFn(Instance("Item", "F")) \in Output(Last)
            /\ init_fn_item \in Output(Last) <=> MonoStatic("S2") \in Output(Last)
            /\ \A item \in {x \in Output(Last) : x.kind = "Fn"} :
                  \A call \in DirectCalls(item) :
                      call.fn_ty.def_id \notin {"G", "init_fn"}

\* An invocation has returned Cat::feed, whose body calls through a function
\* pointer, and G, which no body calls and whose address F takes.
C36_Witness ==
    /\ JustReturned
    /\ {cat_feed_item, G_item, MonoFn(Instance("Item", "F"))} \subseteq Output(Last)
    /\ BagIn(cat_feed_item, visit_log)
    /\ CallFnPtr \in IndirectCalls(cat_feed_item)
    /\ ReifyFnPointer("G") \in FnPointerCasts(MonoFn(Instance("Item", "F")))

\* The extracted pair is a type that is not a trait object and a trait
\* object type.
ConcreteToTrait(pair) == ~is_trait(pair[1]) /\ is_trait(pair[2])

\* C37: an unsizing cast whose extracted pair is not a type that is no trait
\* object and a trait object type (an array to a slice, a trait object to
\* the trait object of a supertrait, alone or in wrappers) adds no item, no
\* method and no drop glue, and collect_vtable_methods, whose assertions
\* such a pair fails, is not called: the visit is not fatal.  For a trait
\* object type without principal trait visit_rvalue adds the drop glue of
\* the concrete type and nothing else.
C37_OtherUnsizingCasts ==
    /\ visit_rvalue(Unsize(TyRef(TyArray(U8)), TyRef(TySlice(U8)))) = NoEdge
    /\ visit_rvalue(Unsize(TyRef(Animal), TyRef(Speaker))) = NoEdge
    /\ collect_vtable_methods(TyArray(U8), TySlice(U8)).fatal
    /\ collect_vtable_methods(Animal, Speaker).fatal
    /\ collect_vtable_methods(Cat, DynSend) =
            [items |-> {MonoFn(Instance("DropGlueSome", "Cat"))}, fatal |-> FALSE]
    /\ unsizing.pc # "aborted"
    /\ unsizing.pc = "visited" =>
          /\ ~ConcreteToTrait(unsizing.pair) =>
                /\ unsizing.edges = NoEdge
                /\ collect_vtable_methods(unsizing.pair[1], unsizing.pair[2]).fatal
          /\ unsizing.inner \in {<<TyArray(U8), TySlice(U8)>>, <<Animal, Speaker>>} =>
                ~ConcreteToTrait(unsizing.pair)
          /\ unsizing.inner[2] = DynSend =>
                /\ ConcreteToTrait(unsizing.pair)
                /\ unsizing.edges =
                        [items |-> {MonoFn(resolve_drop_in_place(unsizing.inner[1]))},
                         fatal |-> FALSE]
                /\ \A x \in unsizing.edges.items : x.def \in {"DropGlueSome", "DropGlueNone"}

\* visit_rvalue has returned from the cast of a Box of an array in nested
\* wrappers to a Box of a slice, with nothing added.
C37_Witness ==
    /\ unsizing.pc = "visited"
    /\ unsizing.rvalue = Unsize(TyBox(Nested(TyArray(U8), MaxNesting)),
                                TyBox(Nested(TySlice(U8), MaxNesting)))
    /\ unsizing.pair = <<TyArray(U8), TySlice(U8)>>
    /\ unsizing.edges = NoEdge

(***************************************************************************)
(* The collector on statics whose initializers refer to each other.        *)
(***************************************************************************)
S3_item == MonoStatic("S3")

S4_item == MonoStatic("S4")

\* The starting points are among the statics S3 and S4 and the global
\* assembly; no function body is chosen.
InitStatics ==
    /\ mir_calls = [fn \in VarFns |-> {}]
    /\ harnesses \in SeqsUpTo({S3_item, S4_item, MonoGlobalAsm("asm0")}, MaxRoots)
    /\ calls = Invocations(harnesses)
    /\ results = <<>>
    /\ pc = "idle"
    /\ starting_points = <<>>
    /\ next_root = 1
    /\ collected = {}
    /\ queue = <<>>
    /\ to_visit = NoItem
    /\ hash_seed = 1
    /\ visit_log = EmptyBag
    /\ unsizing = NotRunning
    /\ mir_pass = NotRunning

FairSpecStatics == InitStatics /\ [][Next]_vars /\ WF_vars(Next)

\* The items that the walk of the initializer of a static gives.
InitializerItems(def_id) == WalkProvenance(eval_static_initializer(def_id).provenance).items

\* C38: for an allocation that is a static collect_alloc_items gives the
\* static alone, nothing of its initializer; the initializer is walked by
\* visit_static when the static is popped and is not yet collected.  On the
\* static S3, whose initializer refers to S3 itself and to S4, whose
\* initializer refers to S3: the visit of a static pushes its drop glue and
\* the statics its initializer names, itself included; each static is
\* visited once; every loop empties its queue and every invocation returns,
\* with S3, S4 and their drop glue when one of the two is a root.
C38_StaticCyclesTerminate ==
    /\ [](/\ collect_alloc_items("alloc_S3") = Walked(<<S3_item>>)
          /\ collect_alloc_items("alloc_S4") = Walked(<<S4_item>>)
          /\ InitializerItems("S3") = <<S3_item, S4_item>>
          /\ InitializerItems("S4") = <<S3_item>>)
    /\ [][VisitStatic =>
            queue' = Append(queue, StaticDropItem(to_visit.of))
                        \o InitializerItems(to_visit.of)]_vars
    /\ [](\A item \in BagToSet(visit_log) : CopiesIn(item, visit_log) = 1)
    /\ [](pc # "aborted")
    /\ [](JustReturned =>
            /\ Output(Last) = LeastClosed(Roots(Last), mir_calls)
            /\ Roots(Last) \cap {S3_item, S4_item} # {} =>
                    /\ {S3_item, S4_item, StaticDropItem("S3")} \subseteq Output(Last)
                    /\ Occurrences(results[Last], S3_item) = 1
                    /\ Occurrences(results[Last], S4_item) = 1)
    /\ (pc = "loop") ~> (pc = "roots")
    /\ <>(pc = "idle" /\ Len(results) = Len(calls))

\* S3 and S4 have been visited, and S3, which the visit of S4 pushed again,
\* is pending on the queue.
C38_Witness ==
    /\ pc = "loop"
    /\ BagIn(S3_item, visit_log)
    /\ BagIn(S4_item, visit_log)
    /\ S3_item \in Range(queue)
    /\ S3_item \in collected

(***************************************************************************)
(* The function call abstraction pass (fn_call_abstractions.rs), run by    *)
(* run_transformation_passes on a clone of the optimized MIR of a          *)
(* function.                                                               *)
(***************************************************************************)
MaxBlocks == 2

RMC_STR == "rmc"

AbstractionsEnum == {"Assumption", "NonDet", "PtrRead", "PtrWrite", "MemSwap", "MemReplace"}

\* AbstractionsEnum::attribute: the diagnostic item that tags each abstraction.
attribute(abs) ==
    CASE abs = "Assumption" -> "RmcAssume"
      [] abs = "NonDet" -> "RmcNonDet"
      [] abs = "PtrRead" -> "RmcPtrRead"
      [] abs = "PtrWrite" -> "RmcPtrWrite"
      [] abs = "MemSwap" -> "RmcMemSwap"
      [] abs = "MemReplace" -> "RmcMemReplace"

DefIdOf(krate, path) == [krate |-> krate, path |-> path]

\* get_rmc_definitions: the definition of every abstraction, or a bug! when
\* no crate named rmc is among the crates of the session.  The diagnostic
\* items of the rmc crate are the definitions tagged in ptr.rs and mem.rs,
\* and the two of its root module.
get_rmc_definitions(sess) ==
    LET diagnostic_items ==
            [name \in {attribute(abs) : abs \in AbstractionsEnum} |->
                CASE name = "RmcPtrRead" -> DefIdOf(RMC_STR, <<"ptr", "read">>)
                  [] name = "RmcPtrWrite" -> DefIdOf(RMC_STR, <<"ptr", "write">>)
                  [] name = "RmcMemSwap" -> DefIdOf(RMC_STR, <<"mem", "swap">>)
                  [] name = "RmcMemReplace" -> DefIdOf(RMC_STR, <<"mem", "replace">>)
                  [] name = "RmcAssume" -> DefIdOf(RMC_STR, <<"assume">>)
                  [] name = "RmcNonDet" -> DefIdOf(RMC_STR, <<"nondet">>)]
    IN  IF RMC_STR \in sess.crates
        THEN [ok |-> TRUE,
              defs |-> [abs \in AbstractionsEnum |-> diagnostic_items[attribute(abs)]]]
        ELSE [ok |-> FALSE]

is_enabled(sess) == RMC_STR \in sess.config

is_rmc_crate(sess) == sess.crate_name = RMC_STR

\* tcx.def_path_str under with_no_trimmed_paths: the crate and the segments
\* of the path.
def_path_str(def_id) ==
    LET RECURSIVE JoinPath(_)
        JoinPath(path) ==
            IF Len(path) = 0 THEN "" ELSE "::" \o Head(path) \o JoinPath(Tail(path))
    IN  def_id.krate \o JoinPath(def_id.path)

FnReplacement(original_fns, abs_id, name) ==
    [original_fns |-> original_fns, abs_id |-> abs_id, name |-> name]

ptr_read(abstraction_ids) ==
    FnReplacement(<<"core::ptr::read", "core::ptr::read_unaligned", "core::ptr::read_volatile",
                    "std::ptr::read", "std::ptr::read_unaligned", "std::ptr::read_volatile">>,
                  abstraction_ids["PtrRead"], "PtrRead")

mem_swap(abstraction_ids) ==
    FnReplacement(<<"core::mem::swap", "std::mem::swap", "core::ptr::swap", "std::ptr::swap">>,
                  abstraction_ids["MemSwap"], "MemSwap")

mem_replace(abstraction_ids) ==
    FnReplacement(<<"core::mem::replace", "std::mem::replace">>,
                  abstraction_ids["MemReplace"], "MemReplace")

ptr_write(abstraction_ids) ==
    FnReplacement(<<"core::ptr::write", "core::ptr::write_unaligned", "core::ptr::write_volatile",
                    "std::ptr::write", "std::ptr::write_unaligned", "std::ptr::write_volatile">>,
                  abstraction_ids["PtrWrite"], "PtrWrite")

\* FnCallAbstractionPass::new: the abstractions in the order they are tried.
abstractions(abstraction_ids) ==
    <<ptr_read(abstraction_ids), ptr_write(abstraction_ids), mem_swap(abstraction_ids),
      mem_replace(abstraction_ids)>>

FnDefTy(def_id, subst) == [k |-> "FnDef", def_id |-> def_id, subst |-> subst]

\* Operand::function_handle: a constant of the type of the function item.
function_handle(def_id, subst, span) ==
    [k |-> "Constant", span |-> span, ty |-> FnDefTy(def_id, subst)]

NoBlock == 0

\* FnReplacement::matches.
matches(abs, func) ==
    IF func.ty.k = "FnDef"
    THEN LET name == def_path_str(func.ty.def_id)
         IN  \E i \in 1..Len(abs.original_fns) : abs.original_fns[i] = name
    ELSE FALSE

\* Variant: the new call has no cleanup edge.
handle_no_cleanup(abs, terminator) ==
    IF terminator.kind.t = "Call" /\ terminator.kind.func.ty.k = "FnDef"
    THEN [ok |-> TRUE,
          terminator |->
            [source_info |-> terminator.source_info,
             kind |-> [t |-> "Call",
                       func |-> function_handle(abs.abs_id, terminator.kind.func.ty.subst,
                                                terminator.kind.fn_span),
                       args |-> terminator.kind.args,
                       destination |-> terminator.kind.destination,
                       cleanup |-> NoBlock,
                       from_hir_call |-> terminator.kind.from_hir_call,
                       fn_span |-> terminator.kind.fn_span]]]
    ELSE [ok |-> FALSE]

\* FnReplacement::handle.
handle(abs, terminator) ==
    IF terminator.kind.t = "Call" /\ terminator.kind.func.ty.k = "FnDef"
    THEN [ok |-> TRUE,
          terminator |->
            [source_info |-> terminator.source_info,
             kind |-> [t |-> "Call",
                       func |-> function_handle(abs.abs_id, terminator.kind.func.ty.subst,
                                                terminator.kind.fn_span),
                       args |-> terminator.kind.args,
                       destination |-> terminator.kind.destination,
                       cleanup |-> terminator.kind.cleanup,
                       from_hir_call |-> terminator.kind.from_hir_call,
                       fn_span |-> terminator.kind.fn_span]]]
    ELSE [ok |-> FALSE]

\* FnCallAbstractionPass::process_bb: the body after the block bb has been
\* looked at, or a bug! when the abstraction cannot be applied.
process_bb(abstraction_ids, body, bb) ==
    LET terminator == body[bb].terminator
        all == abstractions(abstraction_ids)
        found == {i \in 1..Len(all) : matches(all[i], terminator.kind.func)}
    IN  IF terminator.kind.t = "Call" /\ found # {}
        THEN LET abs == all[CHOOSE i \in found : \A j \in found : i <= j]
                 new_terminator == handle(abs, terminator)
             IN  IF new_terminator.ok
                 THEN [ok |-> TRUE,
                       body |-> [body EXCEPT ![bb].terminator = new_terminator.terminator]]
                 ELSE [ok |-> FALSE]
        ELSE [ok |-> TRUE, body |-> body]

\* The bodies given to the pass: up to MaxBlocks basic blocks, each with its
\* statements and a terminator.  The calls are of the paths the pass knows
\* and of two it does not, each in core, in std and in a crate of the user,
\* or through a fn pointer held in a local; every call has its own
\* arguments, destination, cleanup edge, source information and spans.
Bodies ==
    LET CalleeCrates == <<"core", "std", "user">>
        CalleePaths ==
            <<<<"ptr", "read">>, <<"ptr", "read_unaligned">>, <<"ptr", "read_volatile">>,
              <<"ptr", "write">>, <<"ptr", "write_unaligned">>, <<"ptr", "write_volatile">>,
              <<"mem", "swap">>, <<"ptr", "swap">>, <<"mem", "replace">>,
              <<"ptr", "copy">>, <<"mem", "take">>>>
        MoveLocal(local) == [k |-> "Move", local |-> local, ty |-> [k |-> "FnPtr"]]
        CallTerminator(func, n) ==
            [source_info |-> [span |-> 100 + n, scope |-> n % 3],
             kind |-> [t |-> "Call",
                       func |-> func,
                       args |-> <<[k |-> "Move", local |-> n], [k |-> "Copy", local |-> n + 1]>>,
                       destination |-> [place |-> n + 2, target |-> 1 + (n % 2)],
                       cleanup |-> IF n % 2 = 1 THEN 1 ELSE NoBlock,
                       from_hir_call |-> (n % 3 = 0),
                       fn_span |-> 200 + n]]
        StatementsOf(n) ==
            IF n % 2 = 0
            THEN <<[k |-> "StorageLive", local |-> n],
                   [k |-> "Assign", place |-> n, rvalue |-> n + 1]>>
            ELSE <<>>
        BasicBlockData(statements, terminator) ==
            [statements |-> statements, terminator |-> terminator]
        CallBlocks ==
            {BasicBlockData(StatementsOf(c + p),
                            CallTerminator([k |-> "Constant", span |-> 300 + p,
                                            ty |-> FnDefTy(DefIdOf(CalleeCrates[c],
                                                                   CalleePaths[p]),
                                                           <<"T", p>>)],
                                           3 * p + c)) :
                c \in 1..Len(CalleeCrates), p \in 1..Len(CalleePaths)}
        OtherBlocks ==
            {BasicBlockData(StatementsOf(2), CallTerminator(MoveLocal(7), 40)),
             BasicBlockData(StatementsOf(1), CallTerminator(MoveLocal(8), 41)),
             BasicBlockData(StatementsOf(4),
                            [source_info |-> [span |-> 50, scope |-> 0],
                             kind |-> [t |-> "Goto", target |-> 1]]),
             BasicBlockData(StatementsOf(6),
                            [source_info |-> [span |-> 51, scope |-> 1],
                             kind |-> [t |-> "Drop", place |-> 3, target |-> 1,
                                       unwind |-> NoBlock]]),
             BasicBlockData(StatementsOf(3),
                            [source_info |-> [span |-> 52, scope |-> 2],
                             kind |-> [t |-> "Return"]])}
    IN  SeqsUpTo(CallBlocks \cup OtherBlocks, MaxBlocks) \ {<<>>}

\* The sessions: rmc in the configuration or not, the crate named rmc or
\* not, a crate named rmc among the linked crates or not.
Sessions ==
    [config : {{"debug_assertions"}, {"debug_assertions", RMC_STR}},
     crate_name : {RMC_STR, "user"},
     crates : {{"core", "std"}, {"core", "std", RMC_STR}}]

\* The optimized MIR of one function, about to be given to
\* run_transformation_passes.
InitPass ==
    /\ CollectorIdle
    /\ unsizing = NotRunning
    /\ mir_pass \in {[pc |-> "start", sess |-> sess, body |-> body, new_body |-> body,
                      abstraction_ids |-> <<>>, bb |-> 1] :
                        sess \in Sessions, body \in Bodies}

\* run_transformation_passes up to the call of run_pass: the clone of the
\* body and FnCallAbstractionPass::new.
NewPass ==
    /\ mir_pass.pc = "start"
    /\ LET defs == get_rmc_definitions(mir_pass.sess)
       IN  mir_pass' =
            IF defs.ok
            THEN [mir_pass EXCEPT !.pc = "run_pass", !.new_body = mir_pass.body,
                                  !.abstraction_ids = defs.defs]
            ELSE [mir_pass EXCEPT !.pc = "aborted", !.new_body = mir_pass.body]
    /\ UNCHANGED <<collector, unsizing>>

\* run_pass up to its loop.
RunPass ==
    /\ mir_pass.pc = "run_pass"
    /\ mir_pass' =
        IF ~is_enabled(mir_pass.sess) \/ is_rmc_crate(mir_pass.sess)
        THEN [mir_pass EXCEPT !.pc = "returned"]
        ELSE [mir_pass EXCEPT !.pc = "loop", !.bb = 1]
    /\ UNCHANGED <<collector, unsizing>>

\* One turn of the loop of run_pass.
ProcessBb ==
    /\ mir_pass.pc = "loop"
    /\ mir_pass.bb <= Len(mir_pass.new_body)
    /\ LET r == process_bb(mir_pass.abstraction_ids, mir_pass.new_body, mir_pass.bb)
       IN  mir_pass' =
            IF r.ok
            THEN [mir_pass EXCEPT !.new_body = r.body, !.bb = mir_pass.bb + 1]
            ELSE [mir_pass EXCEPT !.pc = "aborted"]
    /\ UNCHANGED <<collector, unsizing>>

\* The end of the loop: run_pass returns and the new body is kept.
RunPassReturn ==
    /\ mir_pass.pc = "loop"
    /\ mir_pass.bb > Len(mir_pass.new_body)
    /\ mir_pass' = [mir_pass EXCEPT !.pc = "returned"]
    /\ UNCHANGED <<collector, unsizing>>

NextPass ==
    \/ NewPass
    \/ RunPass
    \/ ProcessBb
    \/ RunPassReturn

SpecPass == InitPass /\ [][NextPass]_vars

\* The paths that the pass recognizes, and the abstraction of each.
Recognized ==
    [name \in {"core::ptr::read", "core::ptr::read_unaligned", "core::ptr::read_volatile",
               "std::ptr::read", "std::ptr::read_unaligned", "std::ptr::read_volatile"}
            |-> DefIdOf("rmc", <<"ptr", "read">>)]
    @@ [name \in {"core::ptr::write", "core::ptr::write_unaligned",
                  "core::ptr::write_volatile", "std::ptr::write",
                  "std::ptr::write_unaligned", "std::ptr::write_volatile"}
            |-> DefIdOf("rmc", <<"ptr", "write">>)]
    @@ [name \in {"core::mem::swap", "std::mem::swap", "core::ptr::swap", "std::ptr::swap"}
            |-> DefIdOf("rmc", <<"mem", "swap">>)]
    @@ [name \in {"core::mem::replace", "std::mem::replace"}
            |-> DefIdOf("rmc", <<"mem", "replace">>)]

\* The terminator is a call of a function item with a recognized path.
IsRecognizedCall(terminator) ==
    /\ terminator.kind.t = "Call"
    /\ terminator.kind.func.ty.k = "FnDef"
    /\ def_path_str(terminator.kind.func.ty.def_id) \in DOMAIN Recognized

\* The terminator `new` is the call `old` with the callee replaced by the
\* abstraction of its path, at the same type arguments, and nothing else
\* changed.
CalleeReplaced(old, new) ==
    /\ new.source_info = old.source_info
    /\ new.kind.t = "Call"
    /\ new.kind.args = old.kind.args
    /\ new.kind.destination = old.kind.destination
    /\ new.kind.cleanup = old.kind.cleanup
    /\ new.kind.from_hir_call = old.kind.from_hir_call
    /\ new.kind.fn_span = old.kind.fn_span
    /\ new.kind.func.ty =
        FnDefTy(Recognized[def_path_str(old.kind.func.ty.def_id)], old.kind.func.ty.subst)
    /\ DOMAIN new.kind = DOMAIN old.kind

PassSkipped == ~(RMC_STR \in mir_pass.sess.config) \/ mir_pass.sess.crate_name = RMC_STR

\* C39: during and after a run of the pass the new body has the blocks of
\* the optimized body, in number and in order, each with its statements; the
\* terminator of a block is the one of the optimized body, unless it is a
\* call of a function item whose path is one of the recognized ones and the
\* loop has gone past the block, and then it is that call with the callee
\* replaced by the abstraction and with the same arguments, destination,
\* cleanup edge, source information, from_hir_call and fn_span; when the
\* pass is not enabled or the crate is the rmc crate the new body is the
\* optimized body; when the pass returns otherwise every recognized call has
\* been replaced; the optimized body itself is never changed, and a turn of
\* the loop changes at most the terminator of its block.
C39_CallRewriteFrame ==
    /\ [](mir_pass.pc # "idle" =>
            LET old == mir_pass.body
                new == mir_pass.new_body
            IN  /\ Len(new) = Len(old)
                /\ \A i \in 1..Len(old) :
                    /\ new[i].statements = old[i].statements
                    /\ DOMAIN new[i] = DOMAIN old[i]
                    /\ \/ new[i].terminator = old[i].terminator
                       \/ /\ IsRecognizedCall(old[i].terminator)
                          /\ mir_pass.pc \in {"loop", "returned"}
                          /\ i < mir_pass.bb
                          /\ CalleeReplaced(old[i].terminator, new[i].terminator)
                    /\ ~IsRecognizedCall(old[i].terminator) =>
                            new[i].terminator = old[i].terminator
                /\ PassSkipped => new = old
                /\ mir_pass.pc = "returned" /\ ~PassSkipped =>
                    \A i \in 1..Len(old) :
                        IsRecognizedCall(old[i].terminator) =>
                            /\ CalleeReplaced(old[i].terminator, new[i].terminator)
                            /\ new[i].terminator # old[i].terminator
                /\ mir_pass.pc = "aborted" => RMC_STR \notin mir_pass.sess.crates)
    /\ [][/\ mir_pass'.body = mir_pass.body
          /\ mir_pass'.sess = mir_pass.sess
          /\ ProcessBb =>
                \A i \in 1..Len(mir_pass.new_body) :
                    i # mir_pass.bb => mir_pass'.new_body[i] = mir_pass.new_body[i]]_vars

\* The pass has returned from a body of two blocks: the first was a call of
\* core::ptr::write with a cleanup edge and is now a call of the abstraction;
\* the second is a call of a function the pass does not know, as it was.
C39_Witness ==
    /\ mir_pass.pc = "returned"
    /\ Len(mir_pass.body) = 2
    /\ IsRecognizedCall(mir_pass.body[1].terminator)
    /\ def_path_str(mir_pass.body[1].terminator.kind.func.ty.def_id) = "core::ptr::write"
    /\ mir_pass.body[1].terminator.kind.cleanup # NoBlock
    /\ mir_pass.new_body[1].terminator.kind.func.ty.def_id = DefIdOf("rmc", <<"ptr", "write">>)
    /\ mir_pass.body[2].terminator.kind.t = "Call"
    /\ mir_pass.body[2].terminator.kind.func.ty.k = "FnDef"
    /\ def_path_str(mir_pass.body[2].terminator.kind.func.ty.def_id) = "user::ptr::read"
    /\ mir_pass.new_body[2] = mir_pass.body[2]

====
